---- MODULE Spec2Model ----
(***************************************************************************)
(* A model of the PDP add pipeline and key management of ipfs-cluster:     *)
(*   - adder/adder.go            Adder.FromFiles / Adder.FromFile          *)
(*   - pdp/pdp-keys.c            NIST key wrap, PBKDF2, key store          *)
(* Several specifications share the module:                                *)
(*   SpecAdder     calls of FromFiles/FromFile on one Adder, one at a time *)
(*   SpecKeyWrap   nist_key_wrap / nist_key_unwrap as pure functions       *)
(*   SpecKeyStore  the key files and the operations that read/write them   *)
(*   SpecSecrets   what the key functions leave in memory when they return *)
(*   SpecAlloc     what generate_pdp_key and the loads allocate and free   *)
(*   SpecDag       the single DAGService: Add and Finalize                 *)
(*   SpecRace      FromFiles/FromFile called concurrently on one Adder     *)
(*   SpecOutput    what the add pipeline and the key load print and log    *)
(* Each specification parks the variables of the others.                   *)
(***************************************************************************)
EXTENDS Integers, Sequences, FiniteSets, TLC

VARIABLES
    \* ---- adder/adder.go ----
    a_ctx,        \* Adder.ctx: NoCtx (nil) or the context derived by setContext
    ctxDone,      \* caller-supplied contexts: which ones have been cancelled
    outputCloses, \* how many times close(a.output) has run
    ncalls,       \* number of FromFiles/FromFile calls started so far
    pc,           \* position of the running call ("idle" when none runs)
    call,         \* the running call: kind, ctx argument, entries, call number
    it,           \* the entries iterator: index of the current entry
    adderRoot,    \* the local adderRoot ("nil" before the first AddAllAndPin)
    rets,         \* what each call returned, by call number
    log,          \* pdp_tag_file / AddAllAndPin / Finalize invocations, in order,
                  \* each with a.ctx.Err() at the time of the call
    \* ---- pdp-keys.c: nist_key_wrap / nist_key_unwrap as functions ----
    w_pc,         \* "start", "wrapped" or "unwrapped"
    w_in,         \* the arguments of nist_key_wrap: key, key_size, kek, kek_size
    w_enc,        \* what nist_key_wrap returned, and the steps it took
    w_arg,        \* the arguments of nist_key_unwrap
    w_dec,        \* what nist_key_unwrap returned, its steps and final register A
    \* ---- pdp-keys.c: the key files and the functions that use them ----
    k_cwd,        \* the working directory of the process: "home" or "work"
    k_fs,         \* the key files: for each path, the content of the file
    k_nops,       \* number of operations performed so far
    k_stored,     \* per directory: what the last change of its key files was
    k_last,       \* the last operation: its arguments, result and events
    \* ---- pdp-keys.c: the memory that the key functions leave ----
    m_pc,         \* "start" or "returned"
    m_in,         \* the inputs of the call
    m_out,        \* the call made, what it returned and the memory it left
    \* ---- pdp-keys.c: allocations of generate_pdp_key and the loads ----
    r_in,         \* the function called and the build (USE_SAFE_PRIMES or not)
    r_pc,         \* "run", "cleanup" or "returned"
    r_i,          \* the step of the function that comes next
    r_ptr,        \* the pointer variables that are not NULL
    r_owned,      \* the big numbers that the RSA object of key->rsa owns
    r_freed,      \* for each object, how many times it was released
    r_ret,        \* what the function returned: "key" or "NULL"
    \* ---- adder/single/dag_service.go: one DAGService ----
    d_local,      \* dgs.local
    d_dests,      \* dgs.dests: nil or the allocated peers
    d_ba,         \* dgs.ba: nil or the destinations of the BlockAdder
    d_sent,       \* the peers that received a block since New or the last Finalize
    d_session,    \* since New or the last Finalize: the Adds made, the calls of
                  \* BlockAllocate, and how many of them gave destinations
    d_last,       \* the last call: its name, its error, the Adds it made, and
                  \* for Finalize the pin
    \* ---- adder/adder.go: concurrent calls on one Adder ----
    g_ctx,        \* Adder.ctx: 0 (nil) or the goroutine whose setContext made it
    g_cancel,     \* Adder.cancel: 0 or the goroutine whose context it cancels
    g_done,       \* the contexts that have been cancelled
    g_pc,         \* where each goroutine stands in its call
    g_defer,      \* for each goroutine the a.cancel that its defer statement took
    g_closes,     \* how many times close(a.output) has run
    g_installs,   \* how many times setContext has assigned a.ctx
    g_proceeded,  \* the goroutines that got to tag and add content
    \* ---- adder.go and pdp-keys.c: what is logged and printed ----
    o_in,         \* the call, the passphrase it is given, and its surroundings
    o_pc,         \* where the call stands
    o_password,   \* the variable password of the call
    o_out         \* the lines written so far: the stream and the text of each

adderVars == <<a_ctx, ctxDone, outputCloses, ncalls, pc, call, it, adderRoot, rets, log>>
wrapVars == <<w_pc, w_in, w_enc, w_arg, w_dec>>
keyVars == <<k_cwd, k_fs, k_nops, k_stored, k_last>>
memVars == <<m_pc, m_in, m_out>>
allocVars == <<r_in, r_pc, r_i, r_ptr, r_owned, r_freed, r_ret>>
dagVars == <<d_local, d_dests, d_ba, d_sent, d_session, d_last>>
raceVars == <<g_ctx, g_cancel, g_done, g_pc, g_defer, g_closes, g_installs, g_proceeded>>
outVars == <<o_in, o_pc, o_password, o_out>>
vars == <<adderVars, wrapVars, keyVars, memVars, allocVars, dagVars, raceVars, outVars>>

\* What each specification leaves alone.
parkedByAdder == <<wrapVars, keyVars, memVars, allocVars, dagVars, raceVars, outVars>>
parkedByKeyWrap == <<adderVars, keyVars, memVars, allocVars, dagVars, raceVars, outVars>>
parkedByKeyStore == <<adderVars, wrapVars, memVars, allocVars, dagVars, raceVars, outVars>>
parkedBySecrets == <<adderVars, wrapVars, keyVars, allocVars, dagVars, raceVars, outVars>>
parkedByAlloc == <<adderVars, wrapVars, keyVars, memVars, dagVars, raceVars, outVars>>
parkedByDag == <<adderVars, wrapVars, keyVars, memVars, allocVars, raceVars, outVars>>
parkedByRace == <<adderVars, wrapVars, keyVars, memVars, allocVars, dagVars, outVars>>
parkedByOutput == <<adderVars, wrapVars, keyVars, memVars, allocVars, dagVars, raceVars>>

\* The Adder before adder.New, as the other specifications keep it.
ParkedAdder ==
    /\ a_ctx = [parent |-> 0, done |-> FALSE]
    /\ ctxDone = <<>>
    /\ outputCloses = 0
    /\ ncalls = 0
    /\ pc = "parked"
    /\ call = <<>>
    /\ it = 0
    /\ adderRoot = "nil"
    /\ rets = <<>>
    /\ log = <<>>

\* The key wrap variables, as the other specifications keep them.
ParkedKeyWrap ==
    /\ w_pc = "parked"
    /\ w_in = <<>>
    /\ w_enc = <<>>
    /\ w_arg = <<>>
    /\ w_dec = <<>>

\* The key store variables, as the other specifications keep them.
ParkedKeyStore ==
    /\ k_cwd = "parked"
    /\ k_fs = <<>>
    /\ k_nops = 0
    /\ k_stored = <<>>
    /\ k_last = <<>>

\* The memory variables, as the other specifications keep them.
ParkedSecrets ==
    /\ m_pc = "parked"
    /\ m_in = <<>>
    /\ m_out = <<>>

\* The allocation variables, as the other specifications keep them.
ParkedAlloc ==
    /\ r_in = <<>>
    /\ r_pc = "parked"
    /\ r_i = 0
    /\ r_ptr = {}
    /\ r_owned = {}
    /\ r_freed = <<>>
    /\ r_ret = ""

\* The DAGService variables, as the other specifications keep them.
ParkedDag ==
    /\ d_local = FALSE
    /\ d_dests = <<>>
    /\ d_ba = <<>>
    /\ d_sent = {}
    /\ d_session = <<>>
    /\ d_last = <<>>

\* The variables of the concurrent calls, as the other specifications keep
\* them.
ParkedRace ==
    /\ g_ctx = 0
    /\ g_cancel = 0
    /\ g_done = {}
    /\ g_pc = <<>>
    /\ g_defer = <<>>
    /\ g_closes = 0
    /\ g_installs = 0
    /\ g_proceeded = {}

\* The output variables, as the other specifications keep them.
ParkedOutput ==
    /\ o_in = <<>>
    /\ o_pc = "parked"
    /\ o_password = <<>>
    /\ o_out = <<>>

-----------------------------------------------------------------------------
(* Bounds of the model. *)
MaxCalls == 2     \* calls of FromFiles/FromFile on the one Adder
MaxEntries == 2   \* entries of the directory handed to FromFiles
MaxKeyOps == 3    \* operations on the key files in one behaviour
MaxIterations == 3  \* largest iteration count handed to PBKDF2 on its own
MaxGoroutines == 3  \* goroutines that call FromFiles/FromFile on the one Adder
MaxAdds == 3      \* Adds on the DAGService between two Finalize calls
MaxNodes == 2     \* nodes handed to one AddMany
MaxLines == 2     \* lines of the passphrase file
\* The iteration count handed to PBKDF2. The code passes 10000 at both of
\* its call sites (write_pdp_keypair and read_pdp_keypair[_temp]); the model
\* passes this one count at both, scaled down so that a derivation can be
\* computed byte by byte.
PBKDF2_ITERATIONS == 2


-----------------------------------------------------------------------------
(***************************************************************************)
(* pdp-keys.c: buffers.  A buffer is a sequence of bytes (0..255); offsets *)
(* are those of the C code, counted from 0.                                *)
(***************************************************************************)

\* The result of a function that returns a buffer or NULL.
NULL == [null |-> TRUE, buf |-> <<>>]
Buf(b) == [null |-> FALSE, buf |-> b]

\* Sizes of pdp.h and OpenSSL. pdp.h is not among the sources at hand; the
\* values are those of libpdp. The key store needs PRF_KEY_SIZE <= 32 (the
\* size of key_v in write_pdp_keypair) and PRP_KEY_SIZE an AES key length.
SHA_DIGEST_LENGTH == 20
PRF_KEY_SIZE == 20
PRP_KEY_SIZE == 16

\* memset(buf, b, n) on a fresh buffer of n bytes.
Fill(n, b) == [k \in 1..n |-> b]

\* The len bytes of buf from offset off on (the source of a memcpy).
Slice(buf, off, len) == SubSeq(buf, off + 1, off + len)

\* sfree(ptr, size) of libpdp, which zeroes and frees: the buffer as it is released, its first size bytes
\* overwritten with zeros.
sfree(buf, size) == [k \in 1..Len(buf) |-> IF k <= size THEN 0 ELSE buf[k]] \o <<>>

\* Bitwise exclusive or of two non-negative integers (the C operator ^).
RECURSIVE Xor(_, _)
Xor(a, b) ==
    IF a = 0 THEN b
    ELSE IF b = 0 THEN a
    ELSE (((a % 2) + (b % 2)) % 2) + (2 * Xor(a \div 2, b \div 2))

\* for(k...) T[k] ^= U[k]
XorBytes(a, b) == [k \in 1..Len(a) |-> Xor(a[k], b[k])] \o <<>>

\* A hash of a byte string, used to key the stand-ins for the OpenSSL
\* primitives below.
RECURSIVE Mix(_, _, _)
Mix(s, k, h) ==
    IF k > Len(s) THEN h ELSE Mix(s, k + 1, ((h * 31) + s[k] + k) % 8191)

(***************************************************************************)
(* OpenSSL's AES, which the key wrap uses one block at a time, is modelled *)
(* as a keyed permutation of 16-byte blocks: a three-round Feistel network *)
(* on the two 8-byte halves. AES_decrypt is written out as the inverse,    *)
(* round by round; nothing in the key wrap model assumes it.               *)
(***************************************************************************)
\* AES_set_encrypt_key / AES_set_decrypt_key(kek, bits, &aes_key): 0 on
\* success, non-zero when bits is not 128, 192 or 256. The schedule depends
\* on the first bits/8 bytes of kek.
AES_set_key(kek, bits) ==
    IF bits \in {128, 192, 256} /\ bits \div 8 <= Len(kek)
    THEN [rc |-> 0, ks |-> Mix(Slice(kek, 0, bits \div 8), 1, bits)]
    ELSE [rc |-> -2, ks |-> 0]

AES_F(half, ks, r) ==
    [k \in 1..8 |->
        ((half[k] * 3) + (half[(k % 8) + 1] * 5) + ks + (r * 17) + k) % 256] \o <<>>

AES_round(blk, ks, r) ==
    LET L == Slice(blk, 0, 8)
        R == Slice(blk, 8, 8)
    IN  R \o XorBytes(L, AES_F(R, ks, r))

AES_unround(blk, ks, r) ==
    LET L == Slice(blk, 0, 8)
        R == Slice(blk, 8, 8)
    IN  XorBytes(R, AES_F(L, ks, r)) \o L

AES_encrypt(in, ks) == AES_round(AES_round(AES_round(in, ks, 1), ks, 2), ks, 3)

AES_decrypt(in, ks) == AES_unround(AES_unround(AES_unround(in, ks, 3), ks, 2), ks, 1)

(***************************************************************************)
(* nist_key_wrap                                                           *)
(***************************************************************************)

\* Mutation of the wrap tweak: t = (n * j) + i, as the comment beside the
\* statement says, instead of (n * j) + (i + 1).
WrapTweak_comment(n, j, i) == (n * j) + i

\* t = ((n * j) + (i + 1))
WrapTweak(n, j, i) == (n * j) + (i + 1)

\* A[7] = A[7] ^ t, the result stored in an unsigned char.
XorLast(A, t) == [A EXCEPT ![8] = Xor(A[8], t) % 256]

\* One pass of the body of the wrap loops for (j, i).
WrapStep(st, n, ks, j, i) ==
    LET aes_input == st.A \o Slice(st.R, i * 8, 8)
        aes_output == AES_encrypt(aes_input, ks)
        t == WrapTweak(n, j, i)
    IN  [A |-> XorLast(Slice(aes_output, 0, 8), t),
         R |-> Slice(st.R, 0, i * 8) \o Slice(aes_output, 8, 8)
                 \o Slice(st.R, (i + 1) * 8, Len(st.R) - ((i + 1) * 8)),
         steps |-> Append(st.steps, <<j, i, t>>),
         aes_input |-> aes_input, aes_output |-> aes_output]

\* for(j = 0; j < 6; j++) for(i = 0; i < n; i++) { ... }
\* (The test on next.steps is always true: it makes the evaluation compute
\* each pass before the next one starts.)
RECURSIVE WrapLoop(_, _, _, _, _)
WrapLoop(st, n, ks, j, i) ==
    IF j >= 6 THEN st
    ELSE IF i >= n THEN WrapLoop(st, n, ks, j + 1, 0)
    ELSE LET next == WrapStep(st, n, ks, j, i)
         IN  IF next.steps # <<>> THEN WrapLoop(next, n, ks, j, i + 1) ELSE st

\* What a function leaves in memory when it returns: the local arrays as
\* they stand on the stack, and the heap buffers it released, as released.
WrapFrame(A, aes_input, aes_output, r_array) ==
    [A |-> A, aes_input |-> aes_input, aes_output |-> aes_output, r_array |-> r_array]

\* static unsigned char *nist_key_wrap(key, key_size, kek, kek_size): the
\* returned buffer (ret), with the steps taken and the frame left. key and
\* kek are non-NULL buffers of at least key_size and kek_size bytes.
nist_key_wrap(key, key_size, kek, kek_size) ==
    LET n == key_size \div 8
        r_array == Slice(key, 0, n * 8)
        aes_key == AES_set_key(kek, kek_size * 8)
        wrapped(st) ==
            [ret |-> Buf(st.A \o st.R), steps |-> st.steps,
             frame |-> WrapFrame(st.A, st.aes_input, st.aes_output,
                                 sfree(st.R, 8 * n))]
    IN  IF aes_key.rc # 0
        THEN [ret |-> NULL, steps |-> <<>>,
              frame |-> WrapFrame(Fill(8, 166), Fill(PRP_KEY_SIZE, 0),
                                  Fill(PRP_KEY_SIZE, 0), sfree(r_array, 8 * n))]
        ELSE wrapped(WrapLoop([A |-> Fill(8, 166), R |-> r_array, steps |-> <<>>,
                               aes_input |-> Fill(PRP_KEY_SIZE, 0),
                               aes_output |-> Fill(PRP_KEY_SIZE, 0)],
                              n, aes_key.ks, 0, 0))

(***************************************************************************)
(* nist_key_unwrap                                                         *)
(***************************************************************************)

\* Mutation of the integrity check: the comparison with A_check is skipped.
IntegrityOk_skipped(A) == TRUE

\* "if(memcmp(A, A_check, 8) != 0) goto cleanup;"
IntegrityOk(A) == A = Fill(8, 166)

\* One pass of the body of the unwrap loops for (j, i).
UnwrapStep(st, n, ks, j, i) ==
    LET t == (n * j) + (i + 1)
        aes_input == XorLast(st.A, t) \o Slice(st.R, i * 8, 8)
        aes_output == AES_decrypt(aes_input, ks)
    IN  [A |-> Slice(aes_output, 0, 8),
         R |-> Slice(st.R, 0, i * 8) \o Slice(aes_output, 8, 8)
                 \o Slice(st.R, (i + 1) * 8, Len(st.R) - ((i + 1) * 8)),
         steps |-> Append(st.steps, <<j, i, t>>),
         aes_input |-> aes_input, aes_output |-> aes_output]

\* for(j = 5; j >= 0; j--) for(i = (n-1); i >= 0; i--) { ... }
RECURSIVE UnwrapLoop(_, _, _, _, _)
UnwrapLoop(st, n, ks, j, i) ==
    IF j < 0 THEN st
    ELSE IF i < 0 THEN UnwrapLoop(st, n, ks, j - 1, n - 1)
    ELSE LET next == UnwrapStep(st, n, ks, j, i)
         IN  IF next.steps # <<>> THEN UnwrapLoop(next, n, ks, j, i - 1) ELSE st

\* static unsigned char *nist_key_unwrap(enckey, enckey_size, kek, kek_size):
\* the returned buffer (ret), with the steps taken, the integrity register
\* A as it stood at the check and the frame left. enckey holds at least
\* enckey_size >= 8 bytes. (When AES_set_decrypt_key fails the function
\* returns with A and r_array never written.)
nist_key_unwrap(enckey, enckey_size, kek, kek_size) ==
    LET n == (enckey_size \div 8) - 1
        aes_key == AES_set_key(kek, kek_size * 8)
        unwrapped(st) ==
            LET frame == WrapFrame(st.A, st.aes_input, st.aes_output,
                                   sfree(st.R, 8 * n))
            IN  IF ~IntegrityOk(st.A)
                THEN [ret |-> NULL, steps |-> st.steps, A |-> st.A, frame |-> frame]
                ELSE [ret |-> Buf(st.R), steps |-> st.steps, A |-> st.A,
                      frame |-> frame]
    IN  IF aes_key.rc # 0
        THEN [ret |-> NULL, steps |-> <<>>, A |-> <<>>,
              frame |-> WrapFrame(<<>>, Fill(PRP_KEY_SIZE, 0),
                                  Fill(PRP_KEY_SIZE, 0), <<>>)]
        ELSE unwrapped(UnwrapLoop([A |-> Slice(enckey, 0, 8),
                                   R |-> Slice(enckey, 8, n * 8),
                                   steps |-> <<>>,
                                   aes_input |-> Fill(PRP_KEY_SIZE, 0),
                                   aes_output |-> Fill(PRP_KEY_SIZE, 0)],
                                  n, aes_key.ks, 5, n - 1))

(***************************************************************************)
(* SpecKeyWrap: nist_key_wrap and nist_key_unwrap applied to inputs drawn  *)
(* from small sets.                                                        *)
(***************************************************************************)

\* Two 32-byte buffers, used as keys to wrap and as key-encryption keys.
TestBuffers == {[k \in 1..32 |-> k] \o <<>>, [k \in 1..32 |-> ((7 * k) + 3) % 256] \o <<>>}

\* key_size arguments: the three key lengths of the contract (128, 192 and
\* 256 bits) and two that are not a multiple of 8 bytes.
KeySizes == {16, 20, 24, 28, 32}

\* kek_size arguments: the three AES key lengths and one that is none.
KekSizes == {16, 20, 24, 32}

InitKeyWrap ==
    /\ ParkedAdder
    /\ ParkedKeyStore
    /\ ParkedSecrets
    /\ ParkedAlloc
    /\ ParkedDag
    /\ ParkedRace
    /\ ParkedOutput
    /\ w_pc = "start"
    /\ w_in \in [key : TestBuffers, key_size : KeySizes,
                 kek : TestBuffers, kek_size : KekSizes]
    /\ w_enc = <<>>
    /\ w_arg = <<>>
    /\ w_dec = <<>>

\* enc = nist_key_wrap(key, key_size, kek, kek_size)
Wrap ==
    /\ w_pc = "start"
    /\ w_enc' = nist_key_wrap(w_in.key, w_in.key_size, w_in.kek, w_in.kek_size)
    /\ w_pc' = "wrapped"
    /\ UNCHANGED <<parkedByKeyWrap, w_in, w_arg, w_dec>>

\* The bytes of buf with the lowest bit of the byte at offset off flipped.
FlipBit(buf, off) == [buf EXCEPT ![off + 1] = Xor(buf[off + 1], 1)]

\* nist_key_unwrap(enc, size, kek, kek_size) on the buffer the wrap returned,
\* with the same key-encryption key or the other one, and possibly after one
\* bit of the buffer was flipped.
Unwrap ==
    /\ w_pc = "wrapped"
    /\ ~w_enc.ret.null
    /\ \E kek \in TestBuffers, flip \in {-1, 0, 7, 8, Len(w_enc.ret.buf) - 1} :
         LET enckey == IF flip < 0 THEN w_enc.ret.buf ELSE FlipBit(w_enc.ret.buf, flip)
         IN  /\ w_arg' = [enckey |-> enckey, enckey_size |-> w_in.key_size + 8,
                          kek |-> kek, kek_size |-> w_in.kek_size,
                          flipped |-> flip >= 0]
             /\ w_dec' = nist_key_unwrap(enckey, w_in.key_size + 8, kek, w_in.kek_size)
    /\ w_pc' = "unwrapped"
    /\ UNCHANGED <<parkedByKeyWrap, w_in, w_enc>>

NextKeyWrap ==
    \/ Wrap
    \/ Unwrap

SpecKeyWrap == InitKeyWrap /\ [][NextKeyWrap]_vars

(* Properties of the key wrap. *)

Reverse(s) == [k \in 1..Len(s) |-> s[(Len(s) + 1) - k]]

\* The unwrap was given what the wrap returned, under the same KEK, for a
\* key of 128, 192 or 256 bits.
RoundTripCase ==
    /\ w_pc = "unwrapped"
    /\ ~w_arg.flipped
    /\ w_arg.kek = w_in.kek
    /\ w_in.key_size \in {16, 24, 32}

C8_OddSizeRejected ==
    /\ (w_pc \in {"wrapped", "unwrapped"} /\ w_in.key_size % 8 # 0)
          => w_enc.ret = NULL
    /\ (w_pc = "unwrapped" /\ w_arg.enckey_size % 8 # 0)
          => w_dec.ret = NULL

-----------------------------------------------------------------------------
(***************************************************************************)
(* adder/adder.go                                                          *)
(***************************************************************************)

\* Contexts the callers pass in, one candidate per call.
Ctxs == 1..MaxCalls

\* a.ctx == nil
NoCtx == [parent |-> 0, done |-> FALSE]

\* ctx.Err() of the Adder's context: non-nil once a.cancel() ran or the parent
\* context was cancelled.
CtxErr(c, parents) ==
    IF c.done \/ (c.parent # 0 /\ parents[c.parent]) THEN "canceled" ELSE "nil"

\* Mutation of setContext: the guard "only allows first context" is dropped.
setContext_always(cur, ctx) == [parent |-> ctx, done |-> FALSE]

\* func (a *Adder) setContext(ctx): installs a cancellable child of ctx, but
\* only when a.ctx is still nil.
setContext(cur, ctx) ==
    IF cur = NoCtx THEN [parent |-> ctx, done |-> FALSE] ELSE cur

\* The names of the entries a files.Directory may hold: a plain file and a
\* sub-directory.
EntryNames == {"a", "d"}

\* The files stored when the node of an entry is added: a file entry is the
\* file itself, the directory "d" holds two files.
FilesOf(name) == IF name = "d" THEN {"d/x", "d/y"} ELSE {name}

Entry(name) == [name |-> name, files |-> FilesOf(name)]

\* Sequences of distinct entry names, up to MaxEntries long.
RECURSIVE NameSeqs(_)
NameSeqs(n) ==
    IF n = 0 THEN {<<>>}
    ELSE LET shorter == NameSeqs(n - 1)
         IN  shorter \cup {Append(s, x) : s \in {t \in shorter : Len(t) = n - 1},
                                           x \in EntryNames}

Range(s) == {s[i] : i \in 1..Len(s)}

Directories ==
    {[i \in 1..Len(s) |-> Entry(s[i])] :
        s \in {t \in NameSeqs(MaxEntries) : Cardinality(Range(t)) = Len(t)}}

\* "setup wrapping": files.NewSliceDirectory([FileEntry("", f)]): one entry,
\* named "", whose node is the whole directory f.
WrapDirectory(f) ==
    <<[name |-> "", files |-> UNION {f[i].files : i \in 1..Len(f)}]>>

\* The result of the cgo call pdp_tag_file: an int, together with whether the
\* tagger failed. The body of pdp_tag_file is not part of the sources, so no
\* relation between the two is assumed.
TagCodes == {-1, 0, 1}
TagOutcomes == [failed : BOOLEAN, code : TagCodes]

\* Mutation of the abort test: never abort on the tagger's result.
TagAborts_never(code) == FALSE

\* "if err_tag == 1 { ... return cid.Undef, a.ctx.Err() }"
TagAborts(code) == code = 1

Undef == "cid.Undef"

\* What a run leaves as its error when it ends in a panic and returns
\* nothing to its caller.
Panic == "panic: nil pointer dereference"

\* A return after the defers were registered: close(a.output) and a.cancel()
\* run (in that order) whatever the return value is.
ReturnDeferred(cid, err) ==
    /\ outputCloses' = outputCloses + 1
    /\ a_ctx' = [a_ctx EXCEPT !.done = TRUE]
    /\ rets' = [rets EXCEPT ![call.n] = [cid |-> cid, err |-> err]]
    /\ pc' = "idle"

\* A caller invokes FromFiles(ctx, f) or FromFile(ctx, reader, name) while no
\* other call runs.
Call ==
    /\ pc = "idle"
    /\ ncalls < MaxCalls
    /\ \E kind \in {"FromFiles", "FromFile"}, c \in Ctxs, wrap \in BOOLEAN :
         \E f \in (IF kind = "FromFiles" THEN Directories
                   ELSE {<<Entry("a")>>}) :
           /\ (kind = "FromFile" => ~wrap)
           /\ call' = [kind |-> kind, ctx |-> c, f |-> f, wrap |-> wrap,
                       n |-> ncalls + 1]
    /\ ncalls' = ncalls + 1
    /\ pc' = "setContext"
    /\ it' = 0
    /\ adderRoot' = "nil"
    /\ UNCHANGED <<parkedByAdder, a_ctx, ctxDone, outputCloses, rets, log>>

\* a.setContext(ctx)
SetContext ==
    /\ pc = "setContext"
    /\ a_ctx' = setContext(a_ctx, call.ctx)
    /\ pc' = "check"
    /\ UNCHANGED <<parkedByAdder, ctxDone, outputCloses, ncalls, call, it, adderRoot, rets, log>>

\* "if a.ctx.Err() != nil { return cid.Undef, a.ctx.Err() }": this return
\* comes before the defer statements, so nothing is closed or cancelled.
CheckCtx ==
    /\ pc = "check"
    /\ IF CtxErr(a_ctx, ctxDone) # "nil"
       THEN /\ rets' = [rets EXCEPT ![call.n] =
                           [cid |-> Undef, err |-> CtxErr(a_ctx, ctxDone)]]
            /\ pc' = "idle"
       ELSE /\ pc' = "setup"
            /\ UNCHANGED rets
    /\ UNCHANGED <<parkedByAdder, a_ctx, ctxDone, outputCloses, ncalls, call, it, adderRoot, log>>

\* ipfsadd.NewAdder fails, the CID version is bad or the hash function is not
\* recognised: the call returns that error.
SetupFails ==
    /\ pc = "setup"
    /\ \E e \in {"NewAdder", "bad CID Version", "unrecognized hash function"} :
         ReturnDeferred(Undef, e)
    /\ UNCHANGED <<parkedByAdder, ctxDone, ncalls, call, it, adderRoot, log>>

\* The set-up succeeds; FromFiles wraps f when params.Wrap is set, FromFile
\* makes its single reader file.
Setup ==
    /\ pc = "setup"
    /\ call' = [call EXCEPT !.f = IF call.wrap THEN WrapDirectory(call.f) ELSE call.f]
    /\ pc' = IF call.kind = "FromFiles" THEN "iter" ELSE "tag"
    /\ it' = IF call.kind = "FromFiles" THEN 0 ELSE 1
    /\ UNCHANGED <<parkedByAdder, a_ctx, ctxDone, outputCloses, ncalls, adderRoot, rets, log>>

\* "for it.Next()": the iterator moves to the next entry, or stops, at the
\* end of the directory or on a read error (itErr).
IterNext ==
    /\ pc = "iter"
    /\ it < Len(call.f)
    /\ it' = it + 1
    /\ pc' = "tag"
    /\ UNCHANGED <<parkedByAdder, a_ctx, ctxDone, outputCloses, ncalls, call, adderRoot, rets, log>>

\* The loop is over: "if it.Err() != nil { return cid.Undef, it.Err() }"
IterEnd ==
    /\ pc = "iter"
    /\ \E itErr \in BOOLEAN :
         /\ (~itErr => it = Len(call.f))
         /\ IF itErr
            THEN /\ ReturnDeferred(Undef, "it.Err")
            ELSE /\ pc' = "finalize"
                 /\ UNCHANGED <<a_ctx, outputCloses, rets>>
    /\ UNCHANGED <<parkedByAdder, ctxDone, ncalls, call, it, adderRoot, log>>

\* err_tag := C.pdp_tag_file(name, ...) for the current entry, then the test
\* of its result.
TagFile ==
    /\ pc = "tag"
    /\ \E o \in TagOutcomes :
         /\ log' = Append(log, [op |-> "tag", call |-> call.n,
                                name |-> call.f[it].name, files |-> {},
                                failed |-> o.failed, code |-> o.code,
                                ctx |-> CtxErr(a_ctx, ctxDone)])
         /\ IF TagAborts(o.code)
            THEN ReturnDeferred(Undef, CtxErr(a_ctx, ctxDone))
            ELSE /\ pc' = IF call.kind = "FromFiles" THEN "select" ELSE "add"
                 /\ UNCHANGED <<a_ctx, outputCloses, rets>>
    /\ UNCHANGED <<parkedByAdder, ctxDone, ncalls, call, it, adderRoot>>

\* FromFiles only: "select { case <-a.ctx.Done(): return cid.Undef, a.ctx.Err()"
SelectCtx ==
    /\ pc = "select"
    /\ IF CtxErr(a_ctx, ctxDone) # "nil"
       THEN ReturnDeferred(Undef, CtxErr(a_ctx, ctxDone))
       ELSE /\ pc' = "add"
            /\ UNCHANGED <<a_ctx, outputCloses, rets>>
    /\ UNCHANGED <<parkedByAdder, ctxDone, ncalls, call, it, adderRoot, log>>

\* adderRoot, err = ipfsAdder.AddAllAndPin(node): every file under the node
\* is handed to the DAG service; on an error the call returns it.
AddAllAndPin ==
    /\ pc = "add"
    /\ \E ok \in BOOLEAN :
         /\ log' = Append(log, [op |-> "add", call |-> call.n,
                                name |-> call.f[it].name,
                                files |-> call.f[it].files,
                                failed |-> ~ok, code |-> 0,
                                ctx |-> CtxErr(a_ctx, ctxDone)])
         /\ IF ok
            THEN /\ adderRoot' = call.f[it].name
                 /\ pc' = IF call.kind = "FromFiles" THEN "iter" ELSE "finalize"
                 /\ UNCHANGED <<a_ctx, outputCloses, rets>>
            ELSE /\ ReturnDeferred(Undef, "AddAllAndPin")
                 /\ UNCHANGED adderRoot
    /\ UNCHANGED <<parkedByAdder, ctxDone, ncalls, call, it>>

\* clusterRoot, err := a.dgs.Finalize(a.ctx, adderRoot.Cid()). With no entry
\* added adderRoot is a nil interface and adderRoot.Cid() panics; the defers
\* still run.
Finalize ==
    /\ pc = "finalize"
    /\ IF adderRoot = "nil"
       THEN /\ ReturnDeferred(Undef, Panic)
            /\ UNCHANGED log
       ELSE \E ok \in BOOLEAN :
              /\ log' = Append(log, [op |-> "finalize", call |-> call.n,
                                     name |-> adderRoot, files |-> {},
                                     failed |-> ~ok, code |-> 0,
                                     ctx |-> CtxErr(a_ctx, ctxDone)])
              /\ IF ok THEN ReturnDeferred(adderRoot, "nil")
                       ELSE ReturnDeferred(Undef, "Finalize")
    /\ UNCHANGED <<parkedByAdder, ctxDone, ncalls, call, it, adderRoot>>

\* The owner of a context passed to a call cancels it, at any time.
CancelCtx ==
    /\ \E c \in Ctxs :
         /\ ~ctxDone[c]
         /\ ctxDone' = [ctxDone EXCEPT ![c] = TRUE]
    /\ UNCHANGED <<parkedByAdder, a_ctx, outputCloses, ncalls, pc, call, it, adderRoot, rets, log>>

\* adder.New: no context yet, the output channel open, nothing called.
InitAdder ==
    /\ ParkedKeyWrap
    /\ ParkedKeyStore
    /\ ParkedSecrets
    /\ ParkedAlloc
    /\ ParkedDag
    /\ ParkedRace
    /\ ParkedOutput
    /\ a_ctx = NoCtx
    /\ ctxDone = [c \in Ctxs |-> FALSE]
    /\ outputCloses = 0
    /\ ncalls = 0
    /\ pc = "idle"
    /\ call = [kind |-> "none", ctx |-> 0, f |-> <<>>, wrap |-> FALSE, n |-> 0]
    /\ it = 0
    /\ adderRoot = "nil"
    /\ rets = [c \in 1..(MaxCalls + 1) |-> [cid |-> "none", err |-> "none"]]
    /\ log = <<>>

NextAdder ==
    \/ Call
    \/ SetContext
    \/ CheckCtx
    \/ SetupFails
    \/ Setup
    \/ IterNext
    \/ IterEnd
    \/ TagFile
    \/ SelectCtx
    \/ AddAllAndPin
    \/ Finalize
    \/ CancelCtx

SpecAdder == InitAdder /\ [][NextAdder]_vars

-----------------------------------------------------------------------------
(* Properties of the add pipeline. *)

\* The log entries of call c, as indices into log.
EventsOf(c) == {i \in 1..Len(log) : log[i].call = c}

\* C1: whenever pdp_tag_file failed for an entry, whatever code it returned,
\* AddAllAndPin is never called for that entry and Finalize is never called
\* in that run.
C1_TagFailureAbortsAdd ==
    \A i \in 1..Len(log) :
        (log[i].op = "tag" /\ log[i].failed) =>
            \A j \in (i + 1)..Len(log) :
                log[j].call = log[i].call =>
                    /\ ~(log[j].op = "add" /\ log[j].name = log[i].name)
                    /\ log[j].op # "finalize"

\* C2: every file handed to AddAllAndPin, the files inside a directory entry
\* included, has been tagged by exactly one earlier pdp_tag_file call of the
\* same run.
C2_EveryFileTaggedOnceBeforeAdd ==
    \A j \in 1..Len(log) :
        log[j].op = "add" =>
            \A f \in log[j].files :
                Cardinality({i \in 1..(j - 1) :
                                /\ log[i].op = "tag"
                                /\ log[i].call = log[j].call
                                /\ log[i].name = f}) = 1

\* C3: an Adder is used once: every call after the first returns cid.Undef
\* with the context error, never gets past the context check, tags nothing,
\* adds nothing, does not call Finalize and does not close the output again,
\* whatever context it is given.
C3_AdderUsedOnce ==
    \A c \in 2..ncalls :
        /\ EventsOf(c) = {}
        /\ (call.n = c /\ pc # "idle") => pc \in {"setContext", "check"}
        /\ rets[c].cid # "none" => rets[c] = [cid |-> Undef, err |-> "canceled"]
        /\ outputCloses <= 1

\* C3 witness: a second call, given a fresh context that nobody cancelled,
\* has returned after a first call that passed the context check and ran.
C3_Witness ==
    /\ ncalls = 2
    /\ pc = "idle"
    /\ rets[2].cid # "none"
    /\ outputCloses = 1
    /\ call.ctx # a_ctx.parent
    /\ ~ctxDone[call.ctx]

\* C17: whenever pdp_tag_file fails in FromFiles or FromFile with the result
\* the code tests for, the call returns cid.Undef together with a non-nil
\* error, also when the Adder's context has not been cancelled.
C17_TagFailureReturnsError ==
    \A i \in 1..Len(log) :
        (/\ log[i].op = "tag"
         /\ log[i].failed
         /\ TagAborts(log[i].code)
         /\ rets[log[i].call].cid # "none") =>
            /\ rets[log[i].call].cid = Undef
            /\ rets[log[i].call].err # "nil"

\* The Finalize calls of the latest run, and the successful AddAllAndPin
\* calls of that run before log entry i.
FinalizeCalls == {i \in EventsOf(call.n) : log[i].op = "finalize"}
AddedBefore(i) ==
    {j \in EventsOf(call.n) : j < i /\ log[j].op = "add" /\ ~log[j].failed}

\* C18: in one run Finalize is called at most once, and only when the
\* context is not cancelled and every entry of the input has been tagged
\* and then added by AddAllAndPin without error; it receives the root of
\* the last AddAllAndPin; a run on an input with no entries returns an
\* error or cid.Undef to its caller and does not call Finalize.
C18_FinalizeOnceAfterAllAdded ==
    /\ Cardinality(FinalizeCalls) <= 1
    /\ \A i \in FinalizeCalls :
          /\ log[i].ctx = "nil"
          /\ \A k \in 1..Len(call.f) :
                \E j \in AddedBefore(i) :
                    /\ log[j].name = call.f[k].name
                    /\ \E t \in EventsOf(call.n) :
                          t < j /\ log[t].op = "tag" /\ log[t].name = call.f[k].name
          /\ \E j \in AddedBefore(i) :
                /\ \A j2 \in AddedBefore(i) : j2 <= j
                /\ log[i].name = log[j].name
    /\ \A c \in {call.n} \cap DOMAIN rets :
          (rets[c].cid # "none" /\ call.f = <<>>) =>
              /\ FinalizeCalls = {}
              /\ rets[c].cid = Undef
              /\ rets[c].err # Panic

\* C19: whenever a call of FromFiles or FromFile has returned, the output
\* channel has been closed, also when the context passed to the first call
\* was cancelled before the call.
C19_OutputClosedOnReturn ==
    (\E c \in 1..ncalls : rets[c].cid # "none") => outputCloses >= 1

-----------------------------------------------------------------------------
(***************************************************************************)
(* pdp-keys.c: PBKDF2                                                      *)
(***************************************************************************)

\* HMAC(EVP_sha1(), key, key_len, d, n, md, &md_len): a stand-in that maps
\* the key and a non-empty message to SHA_DIGEST_LENGTH bytes.
HMAC(key, d) ==
    LET h == Mix(key \o <<255>> \o d, 1, 17)
    IN  [k \in 1..SHA_DIGEST_LENGTH |->
            ((h * k) + d[((k - 1) % Len(d)) + 1] + (7 * k)) % 256] \o <<>>

\* htonl(i), as the four bytes memcpy copies.
htonl(i) == <<(i \div 16777216) % 256, (i \div 65536) % 256, (i \div 256) % 256, i % 256>>

\* for(j = 0; j < c; j++) { T ^= U; U = HMAC(password, U); }
RECURSIVE PBKDF2_F_loop(_, _, _, _, _)
PBKDF2_F_loop(T, U, password, j, c) ==
    IF j >= c THEN [T |-> T, U |-> U]
    ELSE LET T1 == XorBytes(T, U)
         IN  IF T1 # <<>> THEN PBKDF2_F_loop(T1, HMAC(password, U), password, j + 1, c)
             ELSE [T |-> T, U |-> U]

\* static int PBKDF2_F(T, password, password_len, salt, salt_len, c, i):
\* the return value and T as the call leaves it. T comes in as the caller
\* holds it; the function does not clear it. U is the local array U as the
\* call leaves it on the stack (<<>> when the call never wrote it), first
\* the first PRF output of the call.
PBKDF2_F(T, password, password_len, salt, salt_len, c, i) ==
    IF password_len = 0 \/ salt_len = 0 \/ c = 0
    THEN [ok |-> 0, T |-> T, U |-> <<>>, first |-> <<>>]
    ELSE LET U1 == Slice(salt, 0, salt_len) \o htonl(i)
             U == HMAC(Slice(password, 0, password_len), U1)
             st == PBKDF2_F_loop(T, U, Slice(password, 0, password_len), 0, c)
         IN  [ok |-> 1, T |-> XorBytes(st.T, st.U), U |-> st.U, first |-> U]

\* for(i = 0; i < l; i++) { PBKDF2_F(T, ..., i); copy T into dk; }
\* The frame of PBKDF2 after the loop: the value returned (dk), the local
\* array T and the array U of the last call of PBKDF2_F as they are left on
\* the stack, and for each block the index i it was computed for, the T
\* that PBKDF2_F found, the first PRF output and the T that went into dk.
RECURSIVE PBKDF2_blocks(_, _, _, _, _, _, _, _, _, _, _, _)
PBKDF2_blocks(dk, T, U, blocks, remaining_bytes, i, l, password, password_len, salt, salt_len, c) ==
    IF i >= l THEN [dk |-> Buf(dk), T |-> T, U |-> U, blocks |-> blocks]
    ELSE LET n == IF remaining_bytes >= SHA_DIGEST_LENGTH
                  THEN SHA_DIGEST_LENGTH ELSE remaining_bytes
             off == i * SHA_DIGEST_LENGTH
             step(f) ==
                 IF f.ok = 0
                 THEN [dk |-> NULL, T |-> f.T, U |-> f.U, blocks |-> blocks]
                 ELSE PBKDF2_blocks(
                          Slice(dk, 0, off) \o Slice(f.T, 0, n)
                              \o Slice(dk, off + n, Len(dk) - (off + n)),
                          f.T, f.U,
                          Append(blocks, [i |-> i, T_in |-> T, first |-> f.first,
                                          T |-> f.T]),
                          remaining_bytes - n, i + 1, l,
                          password, password_len, salt, salt_len, c)
         IN  step(PBKDF2_F(T, password, password_len, salt, salt_len, c, i))

\* PBKDF2 as it returns: the frame of PBKDF2_blocks.
PBKDF2_frame(password, password_len, salt, salt_len, c, dkey_len) ==
    IF password_len = 0 \/ salt_len = 0 \/ c = 0 \/ dkey_len = 0
    THEN [dk |-> NULL, T |-> <<>>, U |-> <<>>, blocks |-> <<>>]
    ELSE LET l == (dkey_len \div SHA_DIGEST_LENGTH)
                    + (IF dkey_len % SHA_DIGEST_LENGTH # 0 THEN 1 ELSE 0)
         IN  PBKDF2_blocks(Fill(dkey_len, 0), Fill(SHA_DIGEST_LENGTH, 0), <<>>, <<>>,
                           dkey_len, 0, l, password, password_len, salt, salt_len, c)

\* static unsigned char *PBKDF2(password, password_len, salt, salt_len, c,
\* dkey_len): the derived key, or NULL.
PBKDF2(password, password_len, salt, salt_len, c, dkey_len) ==
    PBKDF2_frame(password, password_len, salt, salt_len, c, dkey_len).dk

-----------------------------------------------------------------------------
(***************************************************************************)
(* pdp-keys.c: keys, PEM blocks and key files.                             *)
(***************************************************************************)

\* A PDP_key: the RSA key, the generator g and the PRF secret v. The RSA
\* keys are two small textbook key pairs.
NoRsa == [n |-> 0, e |-> 0, d |-> 0, p |-> 0, q |-> 0]
NoKey == [null |-> TRUE, rsa |-> NoRsa, g |-> 0, v |-> <<>>]
Keys ==
    {[null |-> FALSE, rsa |-> [n |-> 3233, e |-> 17, d |-> 2753, p |-> 61, q |-> 53],
      g |-> 4, v |-> [k \in 1..PRF_KEY_SIZE |-> (11 * k) % 256] \o <<>>],
     [null |-> FALSE, rsa |-> [n |-> 3127, e |-> 3, d |-> 2011, p |-> 53, q |-> 59],
      g |-> 300, v |-> [k \in 1..PRF_KEY_SIZE |-> (200 + (3 * k)) % 256] \o <<>>]}

\* RSA_check_key(rsa)
RSA_check_key(rsa) ==
    /\ rsa.p > 1 /\ rsa.q > 1
    /\ rsa.n = rsa.p * rsa.q
    /\ (rsa.e * rsa.d) % ((rsa.p - 1) * (rsa.q - 1)) = 1

\* generate_pdp_key(): a fresh key, or NULL on failure. Which key comes out
\* is the environment's choice (the random numbers).
generate_pdp_key(outcome) ==
    IF ~outcome.null /\ RSA_check_key(outcome.rsa) THEN outcome ELSE NoKey

\* Passphrases, as the bytes of a C string: "p1" and "p2".
Passwords == {<<112, 49>>, <<112, 50>>}

\* What RAND_bytes(salt, PRF_KEY_SIZE) can leave in salt.
Salts == {[k \in 1..PRF_KEY_SIZE |-> (5 * k) % 256] \o <<>>,
          [k \in 1..PRF_KEY_SIZE |-> (90 + k) % 256] \o <<>>}

\* The PEM block at the start of a key file. A PKCS8 block encrypted under
\* a passphrase gives up the RSA key to that passphrase only.
NoPem == [type |-> "none", pass |-> <<>>, rsa |-> NoRsa]

\* PEM_write_PKCS8PrivateKey(fp, pkey, EVP_aes_256_cbc(), NULL, 0, 0, u):
\* the passphrase is the C string u; a zero-length passphrase is an error.
PEM_write_PKCS8PrivateKey(rsa, password) ==
    IF password = <<>> THEN [ok |-> FALSE, pem |-> NoPem]
    ELSE [ok |-> TRUE,
          pem |-> [type |-> "ENCRYPTED PRIVATE KEY", pass |-> password, rsa |-> rsa]]

\* PEM_read_PrivateKey(fp, NULL, NULL, u)
PEM_read_PrivateKey(pem, password) ==
    IF pem.type = "ENCRYPTED PRIVATE KEY" /\ pem.pass = password
    THEN [null |-> FALSE, rsa |-> pem.rsa]
    ELSE [null |-> TRUE, rsa |-> NoRsa]

\* PEM_write_RSAPublicKey(fp, rsa): the modulus and the public exponent.
PEM_write_RSAPublicKey(rsa) ==
    [type |-> "RSA PUBLIC KEY", pass |-> <<>>,
     rsa |-> [n |-> rsa.n, e |-> rsa.e, d |-> 0, p |-> 0, q |-> 0]]

\* PEM_read_RSAPublicKey(fp, NULL, NULL, NULL)
PEM_read_RSAPublicKey(pem) ==
    IF pem.type = "RSA PUBLIC KEY"
    THEN [null |-> FALSE, rsa |-> pem.rsa]
    ELSE [null |-> TRUE, rsa |-> NoRsa]

\* BN_bn2bin(a, to): the big-endian bytes of a, none for zero. The C
\* function returns their number.
RECURSIVE BN_bn2bin(_)
BN_bn2bin(a) == IF a = 0 THEN <<>> ELSE Append(BN_bn2bin(a \div 256), a % 256)

\* BN_bin2bn(s, len, ret)
RECURSIVE BN_bin2bn(_, _)
BN_bin2bn(s, len) == IF len = 0 THEN 0 ELSE (BN_bin2bn(s, len - 1) * 256) + s[len]

\* fwrite(&gen_size, sizeof(size_t), 1, fp): the eight bytes of a size_t,
\* lowest first.
RECURSIVE SizeT(_, _)
SizeT(n, k) == IF k = 0 THEN <<>> ELSE <<n % 256>> \o SizeT(n \div 256, k - 1)

\* The size_t that fread(&gen_size, sizeof(size_t), 1, fp) leaves.
RECURSIVE SizeTValue(_, _)
SizeTValue(s, k) == IF k > Len(s) THEN 0 ELSE s[k] + (256 * SizeTValue(s, k + 1))

\* fread(buf, n, 1, fp) at offset off into a zeroed buffer of n bytes: the
\* bytes the file has there, zero where it has none.
FRead(raw, off, n) == [k \in 1..n |-> IF off + k <= Len(raw) THEN raw[off + k] ELSE 0] \o <<>>

\* The key files. A directory is named by what it is: the .pdp directory
\* of the home directory, the .pdp directory of another working directory,
\* and a directory that callers pass as keypath. The directories exist.
Dirs == {"home/.pdp", "work/.pdp", "keydir"}
Files == Dirs \X {"pdp.pri", "pdp.pub"}
PriOf(dir) == <<dir, "pdp.pri">>
PubOf(dir) == <<dir, "pdp.pub">>

\* A file that does not exist, and one that fopen(path, "w") just made.
Absent == [exists |-> FALSE, pem |-> NoPem, raw |-> <<>>]
EmptyFile == [exists |-> TRUE, pem |-> NoPem, raw |-> <<>>]

\* The directory that the relative path ".pdp" names.
RelPdp(cwd) == IF cwd = "home" THEN "home/.pdp" ELSE "work/.pdp"

\* keypath == NULL
NoPath == "NULL"

\* unlink(path): the file is gone if the path names one.
Unlinked(fs, path) == IF path \in Files THEN [fs EXCEPT ![path] = Absent] ELSE fs

-----------------------------------------------------------------------------
(***************************************************************************)
(* pdp-keys.c: the wrapped-secret field of the private key file.           *)
(***************************************************************************)

\* write_pdp_keypair: dk = PBKDF2(password, strlen(password), salt, ...),
\* key_v = v padded with zeros to 32 bytes, enc_v = nist_key_wrap(key_v,
\* 32, dk, PRP_KEY_SIZE).
WrapSecret(v, password, salt) ==
    LET dk == PBKDF2(password, Len(password), salt, PRF_KEY_SIZE,
                     PBKDF2_ITERATIONS, PRP_KEY_SIZE)
        key_v == Slice(v, 0, PRF_KEY_SIZE) \o Fill(32 - PRF_KEY_SIZE, 0)
    IN  IF dk.null THEN [dk |-> NULL, enc_v |-> NULL]
        ELSE [dk |-> dk, enc_v |-> nist_key_wrap(key_v, 32, dk.buf, PRP_KEY_SIZE).ret]

\* Mutation of UnwrapSecret: the 40-byte field is taken to come first and
\* the salt after it.
UnwrapSecret_fieldsSwapped(raw, password) ==
    LET enc_v == FRead(raw, 0, 40)
        salt == FRead(raw, 40, PRF_KEY_SIZE)
        dk == PBKDF2(password, Len(password), salt, PRF_KEY_SIZE,
                     PBKDF2_ITERATIONS, PRP_KEY_SIZE)
        u == nist_key_unwrap(enc_v, 40, dk.buf, PRP_KEY_SIZE)
    IN  IF dk.null THEN [dk |-> NULL, key_v |-> NULL, A |-> <<>>]
        ELSE [dk |-> dk, key_v |-> u.ret, A |-> u.A]

\* read_pdp_keypair[_temp]: fread(salt, PRF_KEY_SIZE), fread(enc_v, 40),
\* dk = PBKDF2(password, strlen(password), salt, ...), key_v =
\* nist_key_unwrap(enc_v, 40, dk, PRP_KEY_SIZE). raw is what follows the
\* PEM block in the private key file. A is the integrity register of the
\* unwrap.
UnwrapSecret(raw, password) ==
    LET salt == FRead(raw, 0, PRF_KEY_SIZE)
        enc_v == FRead(raw, PRF_KEY_SIZE, 40)
        dk == PBKDF2(password, Len(password), salt, PRF_KEY_SIZE,
                     PBKDF2_ITERATIONS, PRP_KEY_SIZE)
        u == nist_key_unwrap(enc_v, 40, dk.buf, PRP_KEY_SIZE)
    IN  IF dk.null THEN [dk |-> NULL, key_v |-> NULL, A |-> <<>>]
        ELSE [dk |-> dk, key_v |-> u.ret, A |-> u.A]

(***************************************************************************)
(* WrapSecret and UnwrapSecret are functions of their arguments. Their     *)
(* values on the arguments that the behaviours below present are computed  *)
(* once, kept as a set of <<arguments, value>> pairs and looked up         *)
(* afterwards; on any other argument they are computed in place.           *)
(***************************************************************************)
\* Offsets at which a stored private key file gets a bit flipped: in the
\* salt, in the first and in the last byte of the wrapped secret.
TamperOffsets == {0, PRF_KEY_SIZE, PRF_KEY_SIZE + 39}

\* The value that table keeps for args, and direct where it keeps none.
Memo(table, args, direct) ==
    IF \E r \in table : r[1] = args
    THEN (CHOOSE r \in table : r[1] = args)[2]
    ELSE direct

WrapArgs == {K.v : K \in Keys} \X Passwords \X Salts
WrapSecretTable == {<<a, WrapSecret(a[1], a[2], a[3])>> : a \in WrapArgs}
WrapSecretMemo(v, password, salt) ==
    Memo(WrapSecretTable, <<v, password, salt>>, WrapSecret(v, password, salt))

\* What write_pdp_keypair leaves after the PEM block of a private key file,
\* as written (off = -1) and with the bit at off flipped.
WrittenRaw ==
    {IF o = -1 THEN r[1][3] \o Slice(r[2].enc_v.buf, 0, 40)
     ELSE FlipBit(r[1][3] \o Slice(r[2].enc_v.buf, 0, 40), o) :
        r \in WrapSecretTable, o \in TamperOffsets \cup {-1}}
UnwrapArgs == WrittenRaw \X Passwords
UnwrapSecretTable == {<<a, UnwrapSecret(a[1], a[2])>> : a \in UnwrapArgs}
UnwrapSecretMemo(raw, password) ==
    Memo(UnwrapSecretTable, <<raw, password>>, UnwrapSecret(raw, password))

-----------------------------------------------------------------------------
(***************************************************************************)
(* pdp-keys.c: the functions of the key store. Each takes the file system  *)
(* as it finds it and returns, with its result, the file system as it      *)
(* leaves it and the events of the call in their order:                    *)
(*   <<"fopen_w", path>>   the file was opened (created, truncated) for    *)
(*                         writing                                         *)
(*   <<"unlink", path>>    unlink(path) was called                         *)
(*   <<"warning">>         the overwrite warning was printed               *)
(*   <<"scanf", c>>        a one-character answer was read                 *)
(*   <<"read_password">>   a passphrase was read from the terminal         *)
(***************************************************************************)

\* int write_pdp_keypair(PDP_key *key, char *password, char *keypath), with
\* the bytes RAND_bytes gives for the salt. password is a C string.
write_pdp_keypair(key, password, keypath, fs, cwd, rand) ==
    LET dir == IF keypath = NoPath THEN RelPdp(cwd) ELSE keypath
        PathPDPPrivateKey == PriOf(dir)
        PathPDPPublicKey == PubOf(dir)
        \* snprintf(pdpkeypath, MAXPATHLEN, "%s/%s", pw->pw_dir, Path...):
        \* the path below the home directory. It names a key file of the
        \* model only when keypath is NULL.
        home_pri == IF keypath = NoPath THEN PriOf("home/.pdp")
                    ELSE <<"home", keypath, "pdp.pri">>
        home_pub == IF keypath = NoPath THEN PubOf("home/.pdp")
                    ELSE <<"home", keypath, "pdp.pub">>
        opened == <<<<"fopen_w", PathPDPPrivateKey>>, <<"fopen_w", PathPDPPublicKey>>>>
        cleanup(f) ==
            [rc |-> 0,
             fs |-> Unlinked(Unlinked(f, home_pri), home_pub),
             ev |-> opened \o <<<<"unlink", home_pri>>, <<"unlink", home_pub>>>>]
        fs1 == [fs EXCEPT ![PathPDPPrivateKey] = EmptyFile,
                          ![PathPDPPublicKey] = EmptyFile]
        pem == PEM_write_PKCS8PrivateKey(key.rsa, password)
        fs2 == [fs1 EXCEPT ![PathPDPPrivateKey].pem = pem.pem]
        gen == BN_bn2bin(key.g)
        gen_size == Len(gen)
        \* from "dk = PBKDF2(...)" on, sec being dk and enc_v
        wrapped(sec) ==
            LET fs3 == [fs2 EXCEPT ![PathPDPPrivateKey].raw =
                                       rand \o Slice(sec.enc_v.buf, 0, 40)]
                fs4 == [fs3 EXCEPT ![PathPDPPublicKey].pem =
                                       PEM_write_RSAPublicKey(key.rsa)]
                fs5 == [fs4 EXCEPT ![PathPDPPublicKey].raw = SizeT(gen_size, 8)]
                fs6 == [fs5 EXCEPT ![PathPDPPublicKey].raw = @ \o gen]
            IN  IF sec.dk.null \/ sec.enc_v.null THEN cleanup(fs2)
                ELSE IF gen_size = 0 THEN cleanup(fs5)
                ELSE [rc |-> 1, fs |-> fs6, ev |-> opened]
    IN  IF key.null THEN [rc |-> 0, fs |-> fs, ev |-> <<>>]
        ELSE IF ~pem.ok THEN cleanup(fs1)
        ELSE wrapped(WrapSecretMemo(key.v, password, rand))

\* The result of a load that failed at the named call.
LoadFailed(at, A) == [key |-> NoKey, failed |-> at, A |-> A]

\* Mutation of read_keypair_body: no failure ends the load; the key is
\* returned with whatever was filled in.
read_keypair_body_partial(pri_key, pub_key, password) ==
    LET gen_size == SizeTValue(FRead(pub_key.raw, 0, 8), 1)
        unwrapped(sec) ==
            [key |-> [null |-> FALSE, rsa |-> pri_key.pem.rsa,
                      g |-> BN_bin2bn(FRead(pub_key.raw, 8, gen_size), gen_size),
                      v |-> IF sec.key_v.null THEN Fill(PRF_KEY_SIZE, 0) \o <<>>
                            ELSE Slice(sec.key_v.buf, 0, PRF_KEY_SIZE)],
             failed |-> "", A |-> sec.A]
    IN  unwrapped(UnwrapSecretMemo(pri_key.raw, password))

\* read_pdp_keypair and read_pdp_keypair_temp from PEM_read_PrivateKey on
\* (the two functions are the same from there): the key, or NULL with the
\* call that failed. pri_key and pub_key are the opened files.
read_keypair_body(pri_key, pub_key, password) ==
    LET pkey == PEM_read_PrivateKey(pri_key.pem, password)
        rsa == PEM_read_RSAPublicKey(pub_key.pem)
        gen_size == SizeTValue(FRead(pub_key.raw, 0, 8), 1)
        gen == FRead(pub_key.raw, 8, gen_size)
        \* from "dk = PBKDF2(...)" on, sec being dk, key_v and A
        unwrapped(sec) ==
            IF sec.dk.null THEN LoadFailed("PBKDF2", <<>>)
            ELSE IF sec.key_v.null THEN LoadFailed("nist_key_unwrap", sec.A)
            ELSE IF rsa.null THEN LoadFailed("PEM_read_RSAPublicKey", sec.A)
            ELSE [key |-> [null |-> FALSE, rsa |-> pkey.rsa,
                           g |-> BN_bin2bn(gen, gen_size),
                           v |-> Slice(sec.key_v.buf, 0, PRF_KEY_SIZE)],
                  failed |-> "", A |-> sec.A]
    IN  IF pkey.null THEN LoadFailed("PEM_read_PrivateKey", <<>>)
        ELSE IF ~RSA_check_key(pkey.rsa) THEN LoadFailed("RSA_check_key", <<>>)
        ELSE unwrapped(UnwrapSecretMemo(pri_key.raw, password))

\* PDP_key *read_pdp_keypair_temp(FILE *pri_key, FILE *pub_key,
\* char *password_in). A file that is not open is NULL.
read_pdp_keypair_temp(pri_key, pub_key, password_in) ==
    IF ~pri_key.exists \/ ~pub_key.exists
    THEN [key |-> NoKey, failed |-> "NULL file", A |-> <<>>, ev |-> <<>>]
    ELSE LET read(r) == [key |-> r.key, failed |-> r.failed, A |-> r.A, ev |-> <<>>]
         IN  read(read_keypair_body(pri_key, pub_key, password_in))

\* PDP_key *read_pdp_keypair(FILE *pri_key, FILE *pub_key). typed is what
\* read_password returns: the passphrase typed at the terminal, or NULL.
read_pdp_keypair(pri_key, pub_key, typed) ==
    IF ~pri_key.exists \/ ~pub_key.exists
    THEN [key |-> NoKey, failed |-> "NULL file", A |-> <<>>, ev |-> <<>>]
    ELSE IF typed.null
    THEN [key |-> NoKey, failed |-> "read_password", A |-> <<>>,
          ev |-> <<<<"read_password">>>>]
    ELSE LET read(r) == [key |-> r.key, failed |-> r.failed, A |-> r.A,
                         ev |-> <<<<"read_password">>>>]
         IN  read(read_keypair_body(pri_key, pub_key, typed.buf))

\* What the terminal and the random numbers give a call: the character
\* that scanf("%c") reads, what read_password returns (the loop of
\* pdp_create_new_keypair ends with two equal passphrases: typed is that
\* passphrase), the outcome of generate_pdp_key and the salt.
Envs ==
    [answer : {"y", "n"},
     typed : {Buf(pw) : pw \in Passwords} \cup {Buf(<<>>), NULL},
     gen : Keys \cup {NoKey},
     salt : Salts]

\* PDP_key *pdp_create_new_keypair()
pdp_create_new_keypair(fs, cwd, env) ==
    LET \* access(prikeypath, F_OK) == 0 && access(pubkeypath, F_OK) == 0,
        \* both paths below pw->pw_dir
        exists == fs[PriOf("home/.pdp")].exists /\ fs[PubOf("home/.pdp")].exists
        asked == IF exists THEN <<<<"warning">>, <<"scanf", env.answer>>>> ELSE <<>>
        key == generate_pdp_key(env.gen)
        passwords == asked \o <<<<"read_password">>, <<"read_password">>>>
        failed(f, ev) == [ret |-> NoKey, fs |-> f, ev |-> ev, A |-> <<>>,
                          failed |-> "pdp_create_new_keypair"]
        \* "if(!write_pdp_keypair(key, passwd1, NULL)) goto cleanup;", w
        \* being what the call returns
        written(w) ==
            IF w.rc = 0 THEN failed(w.fs, passwords \o w.ev)
            ELSE [ret |-> key, fs |-> w.fs, ev |-> passwords \o w.ev,
                  A |-> <<>>, failed |-> ""]
    IN  IF exists /\ env.answer # "y" THEN failed(fs, asked)
        ELSE IF env.typed.null THEN failed(fs, asked \o <<<<"read_password">>>>)
        ELSE IF key.null THEN failed(fs, passwords)
        ELSE written(write_pdp_keypair(key, env.typed.buf, NoPath, fs, cwd, env.salt))

\* Mutation of NeitherOpened: the test holds as soon as one file is missing.
NeitherOpened_either(pri_key, pub_key) == ~pri_key.exists \/ ~pub_key.exists

\* "if(pri_key && pub_key)" and "else if(!pri_key && !pub_key)" of
\* pdp_get_keypair and pdp_get_keypair_temp, on the results of fopen(.., "r").
BothOpened(pri_key, pub_key) == pri_key.exists /\ pub_key.exists
NeitherOpened(pri_key, pub_key) == ~pri_key.exists /\ ~pub_key.exists

\* PDP_key *pdp_get_keypair()
pdp_get_keypair(fs, cwd, env) ==
    LET pri_key == fs[PriOf("home/.pdp")]
        pub_key == fs[PubOf("home/.pdp")]
        asked == <<<<"scanf", env.answer>>>>
        \* key = read_pdp_keypair(pri_key, pub_key)
        read(r) == [ret |-> r.key, fs |-> fs, ev |-> r.ev, A |-> r.A, failed |-> r.failed]
        \* key = pdp_create_new_keypair()
        created(c) == [ret |-> c.ret, fs |-> c.fs, ev |-> asked \o c.ev, A |-> <<>>,
                       failed |-> c.failed]
        cleanup(ev, at) == [ret |-> NoKey, fs |-> fs, ev |-> ev, A |-> <<>>, failed |-> at]
    IN  IF BothOpened(pri_key, pub_key)
        THEN read(read_pdp_keypair(pri_key, pub_key, env.typed))
        ELSE IF NeitherOpened(pri_key, pub_key)
        THEN IF env.answer # "y" THEN cleanup(asked, "PDP keys do not exist")
             ELSE created(pdp_create_new_keypair(fs, cwd, env))
        ELSE IF ~pub_key.exists /\ pri_key.exists
        THEN cleanup(<<>>, "PDP public key is missing")
        ELSE cleanup(<<>>, "PDP private key is missing")

\* PDP_key *pdp_get_keypair_temp(char *keypath, char *password)
pdp_get_keypair_temp(keypath, password, fs) ==
    LET pri_key == fs[PriOf(keypath)]
        pub_key == fs[PubOf(keypath)]
        \* key = read_pdp_keypair_temp(pri_key, pub_key, password)
        read(r) == [ret |-> r.key, fs |-> fs, ev |-> r.ev, A |-> r.A, failed |-> r.failed]
        cleanup(at) == [ret |-> NoKey, fs |-> fs, ev |-> <<>>, A |-> <<>>, failed |-> at]
    IN  IF BothOpened(pri_key, pub_key)
        THEN read(read_pdp_keypair_temp(pri_key, pub_key, password))
        ELSE IF NeitherOpened(pri_key, pub_key)
        THEN cleanup("PDP keys do not exist")
        ELSE IF ~pub_key.exists /\ pri_key.exists
        THEN cleanup("PDP public key is missing")
        ELSE cleanup("PDP private key is missing")

\* PDP_key *pdp_get_pubkey(): a key with the public components only (the
\* RSA modulus and exponent and the generator), from the public key file
\* below the home directory.
pdp_get_pubkey(fs) ==
    LET pub_key == fs[PubOf("home/.pdp")]
        rsa == PEM_read_RSAPublicKey(pub_key.pem)
        gen_size == SizeTValue(FRead(pub_key.raw, 0, 8), 1)
        gen == FRead(pub_key.raw, 8, gen_size)
        failed(at) == [ret |-> NoKey, fs |-> fs, ev |-> <<>>, A |-> <<>>, failed |-> at]
    IN  IF ~pub_key.exists THEN failed("fopen")
        ELSE IF rsa.null THEN failed("PEM_read_RSAPublicKey")
        ELSE [ret |-> [null |-> FALSE, rsa |-> rsa.rsa,
                       g |-> BN_bin2bn(gen, gen_size), v |-> <<>>],
              fs |-> fs, ev |-> <<>>, A |-> <<>>, failed |-> ""]

-----------------------------------------------------------------------------
(***************************************************************************)
(* SpecKeyStore: calls of the key store functions, one after the other,    *)
(* on one file system, with files removed or altered between the calls.    *)
(***************************************************************************)

\* k_stored[dir]: "written" when the last change of the key files of dir
\* was a successful write_pdp_keypair of key under password with salt,
\* "tampered" when the private key file so written was altered since (kind
\* says how), "none" otherwise.
NoneStored == [how |-> "none", key |-> NoKey, password |-> <<>>, salt |-> <<>>, kind |-> ""]

DirChanged(fs, fs2, dir) ==
    fs2[PriOf(dir)] # fs[PriOf(dir)] \/ fs2[PubOf(dir)] # fs[PubOf(dir)]

\* k_stored after a call that took the files from fs to fs2 and wrote
\* them in directory written ("" when it wrote none successfully).
StoredAfter(stored, fs, fs2, written, key, password, salt) ==
    [d \in Dirs |->
        IF d = written
        THEN [how |-> "written", key |-> key, password |-> password,
              salt |-> salt, kind |-> ""]
        ELSE IF DirChanged(fs, fs2, d) THEN NoneStored
        ELSE stored[d]]

NoEnv == [answer |-> "-", typed |-> NULL, gen |-> NoKey, salt |-> <<>>]

\* The record of a call, as k_last keeps it: fs_pre and fs_post are the
\* files as the call found and left them, persisted is k_stored of the
\* directory a load read, as the load found it.
Last(op, keypath, password, key, env, r, rc, fs_pre, fs_post, persisted) ==
    [op |-> op, keypath |-> keypath, password |-> password, key |-> key,
     env |-> env, ret |-> r.ret, rc |-> rc, ev |-> r.ev, A |-> r.A,
     failed |-> r.failed, fs_pre |-> fs_pre, fs_post |-> fs_post,
     persisted |-> persisted]

InitKeyStore ==
    /\ ParkedAdder
    /\ ParkedKeyWrap
    /\ ParkedSecrets
    /\ ParkedAlloc
    /\ ParkedDag
    /\ ParkedRace
    /\ ParkedOutput
    /\ k_cwd \in {"home", "work"}
    /\ k_fs = [f \in Files |-> Absent]
    /\ k_nops = 0
    /\ k_stored = [d \in Dirs |-> NoneStored]
    /\ k_last = Last("none", NoPath, <<>>, NoKey, NoEnv,
                     [ret |-> NoKey, ev |-> <<>>, A |-> <<>>, failed |-> ""],
                     0, k_fs, k_fs, NoneStored)

\* write_pdp_keypair(key, password, keypath), with keypath NULL or the
\* directory "keydir".
WriteKeypair ==
    /\ k_nops < MaxKeyOps
    /\ \E key \in Keys, password \in Passwords, keypath \in {NoPath, "keydir"},
          rand \in Salts :
         \E w \in {write_pdp_keypair(key, password, keypath, k_fs, k_cwd, rand)} :
         LET dir == IF keypath = NoPath THEN RelPdp(k_cwd) ELSE keypath
         IN  /\ k_fs' = w.fs
             /\ k_stored' = StoredAfter(k_stored, k_fs, w.fs,
                                        IF w.rc = 1 THEN dir ELSE "",
                                        key, password, rand)
             /\ k_last' = Last("write_pdp_keypair", keypath, password, key,
                               [NoEnv EXCEPT !.salt = rand],
                               [ret |-> NoKey, ev |-> w.ev, A |-> <<>>, failed |-> ""],
                               w.rc, k_fs, w.fs, NoneStored)
    /\ k_nops' = k_nops + 1
    /\ UNCHANGED <<parkedByKeyStore, k_cwd>>

\* pdp_create_new_keypair()
CreateNewKeypair ==
    /\ k_nops < MaxKeyOps
    /\ \E env \in Envs :
         \E c \in {pdp_create_new_keypair(k_fs, k_cwd, env)} :
             /\ k_fs' = c.fs
             /\ k_stored' = StoredAfter(k_stored, k_fs, c.fs,
                                        IF c.ret.null THEN "" ELSE RelPdp(k_cwd),
                                        c.ret, env.typed.buf, env.salt)
             /\ k_last' = Last("pdp_create_new_keypair", NoPath, <<>>, NoKey, env,
                               c, 0, k_fs, c.fs, NoneStored)
    /\ k_nops' = k_nops + 1
    /\ UNCHANGED <<parkedByKeyStore, k_cwd>>

\* pdp_get_keypair()
GetKeypair ==
    /\ k_nops < MaxKeyOps
    /\ \E env \in Envs :
         \E g \in {pdp_get_keypair(k_fs, k_cwd, env)} :
         LET created == g.fs # k_fs /\ ~g.ret.null
         IN  /\ k_fs' = g.fs
             /\ k_stored' = StoredAfter(k_stored, k_fs, g.fs,
                                        IF created THEN RelPdp(k_cwd) ELSE "",
                                        g.ret, env.typed.buf, env.salt)
             /\ k_last' = Last("pdp_get_keypair", "home/.pdp", env.typed.buf, NoKey,
                               env, g, 0, k_fs, g.fs, k_stored["home/.pdp"])
    /\ k_nops' = k_nops + 1
    /\ UNCHANGED <<parkedByKeyStore, k_cwd>>

\* pdp_get_keypair_temp(keypath, password)
GetKeypairTemp ==
    /\ k_nops < MaxKeyOps
    /\ \E keypath \in Dirs, password \in Passwords :
         \E g \in {pdp_get_keypair_temp(keypath, password, k_fs)} :
             /\ k_fs' = g.fs
             /\ k_last' = Last("pdp_get_keypair_temp", keypath, password, NoKey,
                               NoEnv, g, 0, k_fs, g.fs, k_stored[keypath])
    /\ k_nops' = k_nops + 1
    /\ UNCHANGED <<parkedByKeyStore, k_cwd, k_stored>>

\* Somebody removes a key file.
Unlink ==
    /\ k_nops < MaxKeyOps
    /\ \E path \in Files :
         /\ k_fs[path].exists
         /\ k_fs' = Unlinked(k_fs, path)
         /\ k_stored' = [k_stored EXCEPT ![path[1]] = NoneStored]
    /\ k_nops' = k_nops + 1
    /\ UNCHANGED <<parkedByKeyStore, k_cwd, k_last>>

\* Somebody alters a private key file that write_pdp_keypair wrote: one bit
\* of the salt or of the wrapped secret is flipped, or the PEM block is
\* re-encrypted under another passphrase.
Tamper ==
    /\ k_nops < MaxKeyOps
    /\ \E dir \in Dirs :
         /\ k_stored[dir].how = "written"
         /\ \/ \E off \in TamperOffsets :
                  /\ k_fs' = [k_fs EXCEPT ![PriOf(dir)].raw = FlipBit(@, off)]
                  /\ k_stored' = [k_stored EXCEPT ![dir].how = "tampered",
                                                  ![dir].kind = "bit"]
            \/ \E pw \in Passwords \ {k_stored[dir].password} :
                  /\ k_fs' = [k_fs EXCEPT ![PriOf(dir)].pem.pass = pw]
                  /\ k_stored' = [k_stored EXCEPT ![dir].how = "tampered",
                                                  ![dir].kind = "pem"]
    /\ k_nops' = k_nops + 1
    /\ UNCHANGED <<parkedByKeyStore, k_cwd, k_last>>

\* pdp_get_pubkey()
GetPubkey ==
    /\ k_nops < MaxKeyOps
    /\ \E g \in {pdp_get_pubkey(k_fs)} :
         /\ k_fs' = g.fs
         /\ k_last' = Last("pdp_get_pubkey", "home/.pdp", <<>>, NoKey,
                           NoEnv, g, 0, k_fs, g.fs, k_stored["home/.pdp"])
    /\ k_nops' = k_nops + 1
    /\ UNCHANGED <<parkedByKeyStore, k_cwd, k_stored>>

\* What write_pdp_keypair puts in the public key file of key.
PublicFile(key) ==
    [exists |-> TRUE, pem |-> PEM_write_RSAPublicKey(key.rsa),
     raw |-> SizeT(Len(BN_bn2bin(key.g)), 8) \o BN_bn2bin(key.g)]

\* Somebody alters a public key file that write_pdp_keypair wrote: the
\* generator field is cut off ("missing"), is left with size zero ("empty"),
\* or the file is replaced by the public key file of another key
\* ("foreign").
AlterPublic ==
    /\ k_nops < MaxKeyOps
    /\ \E dir \in Dirs :
         /\ k_stored[dir].how = "written"
         /\ \/ /\ k_fs' = [k_fs EXCEPT ![PubOf(dir)].raw = <<>>]
               /\ k_stored' = [k_stored EXCEPT ![dir].how = "pub_altered",
                                               ![dir].kind = "missing"]
            \/ /\ k_fs' = [k_fs EXCEPT ![PubOf(dir)].raw = SizeT(0, 8)]
               /\ k_stored' = [k_stored EXCEPT ![dir].how = "pub_altered",
                                               ![dir].kind = "empty"]
            \/ \E other \in Keys \ {k_stored[dir].key} :
                  /\ k_fs' = [k_fs EXCEPT ![PubOf(dir)] = PublicFile(other)]
                  /\ k_stored' = [k_stored EXCEPT ![dir].how = "pub_altered",
                                                  ![dir].kind = "foreign"]
    /\ k_nops' = k_nops + 1
    /\ UNCHANGED <<parkedByKeyStore, k_cwd, k_last>>

NextKeyStore ==
    \/ WriteKeypair
    \/ CreateNewKeypair
    \/ GetKeypair
    \/ GetKeypairTemp
    \/ GetPubkey
    \/ Unlink
    \/ Tamper
    \/ AlterPublic

SpecKeyStore == InitKeyStore /\ [][NextKeyStore]_vars

-----------------------------------------------------------------------------
(* Properties of the key store. *)

Loads == {"pdp_get_keypair", "pdp_get_keypair_temp"}

\* The last call was a load that found both key files of its directory and
\* had a passphrase to try.
LoadedFromFiles ==
    /\ k_last.op \in Loads
    /\ k_last.fs_pre[PriOf(k_last.keypath)].exists
    /\ k_last.fs_pre[PubOf(k_last.keypath)].exists
    /\ k_last.op = "pdp_get_keypair" => ~k_last.env.typed.null

C5_WrongPassphraseRejected ==
    (/\ LoadedFromFiles
     /\ k_last.persisted.how = "written"
     /\ k_last.password # k_last.persisted.password)
    => /\ k_last.ret = NoKey
       /\ k_last.failed \in {"PEM_read_PrivateKey", "nist_key_unwrap"}

\* C5 witness: pdp_get_keypair, given another passphrase at the terminal
\* than the one the key was written under, returned NULL.
C5_Witness ==
    /\ LoadedFromFiles
    /\ k_last.op = "pdp_get_keypair"
    /\ k_last.persisted.how = "written"
    /\ k_last.password \in Passwords \ {k_last.persisted.password}
    /\ k_last.ret.null

\* C7: a load returns a key only if the integrity register of its unwrap
\* ended as eight bytes 0xA6; when the register ended otherwise the load
\* returns NULL, nothing of the register or the unwrapped bytes with it;
\* and a load of an altered private key file returns NULL as a load with a
\* wrong passphrase does.
C7_UnwrapChecksIntegrity ==
    LoadedFromFiles =>
        /\ ~k_last.ret.null => k_last.A = Fill(8, 166)
        /\ (k_last.A # <<>> /\ k_last.A # Fill(8, 166)) =>
               (k_last.ret = NoKey /\ k_last.failed = "nist_key_unwrap")
        /\ k_last.persisted.how = "tampered" =>
               /\ k_last.ret = NoKey
               /\ k_last.failed \in {"PEM_read_PrivateKey", "nist_key_unwrap"}

\* C7 witness: a load with the right passphrase, of a file with one bit of
\* the wrapped secret flipped, failed at the unwrap.
C7_Witness ==
    /\ LoadedFromFiles
    /\ k_last.persisted.how = "tampered"
    /\ k_last.persisted.kind = "bit"
    /\ k_last.password = k_last.persisted.password
    /\ k_last.failed = "nist_key_unwrap"
    /\ k_last.A # Fill(8, 166)

\* C9: when exactly one of the two key files can be opened, pdp_get_keypair
\* and pdp_get_keypair_temp return NULL, read no passphrase, open no file
\* for writing and leave the files as they were.
C9_OneFileMissingFails ==
    (/\ k_last.op \in Loads
     /\ k_last.fs_pre[PriOf(k_last.keypath)].exists
           # k_last.fs_pre[PubOf(k_last.keypath)].exists)
    => /\ k_last.ret = NoKey
       /\ \A i \in 1..Len(k_last.ev) :
              k_last.ev[i][1] \notin {"read_password", "fopen_w", "scanf"}
       /\ k_last.fs_post = k_last.fs_pre

\* C9 witness: pdp_get_keypair found the private key file without the
\* public one.
C9_Witness ==
    /\ k_last.op = "pdp_get_keypair"
    /\ k_last.fs_pre[PriOf("home/.pdp")].exists
    /\ ~k_last.fs_pre[PubOf("home/.pdp")].exists
    /\ k_last.ret.null

\* C10: pdp_create_new_keypair opens a key file that exists for writing
\* only after the answer 'y' was read; after any other answer it returns
\* NULL and the files are as they were.
C10_NoOverwriteWithoutConfirmation ==
    k_last.op = "pdp_create_new_keypair" =>
        /\ \A i \in 1..Len(k_last.ev) :
              (k_last.ev[i][1] = "fopen_w" /\ k_last.fs_pre[k_last.ev[i][2]].exists)
                 => \E j \in 1..(i - 1) : k_last.ev[j] = <<"scanf", "y">>
        /\ (\E j \in 1..Len(k_last.ev) : k_last.ev[j] = <<"scanf", "n">>)
              => (k_last.ret = NoKey /\ k_last.fs_post = k_last.fs_pre)

\* The greatest common divisor of two non-negative integers.
RECURSIVE GCD(_, _)
GCD(a, b) == IF b = 0 THEN a ELSE GCD(b, a % b)

\* C13: a key that a load (pdp_get_keypair, pdp_get_keypair_temp,
\* pdp_get_pubkey) returns has a generator that is not zero and is coprime
\* to the modulus of the key, and no load returns a key from a public key
\* file whose generator field is missing, empty or that of another key.
C13_GeneratorBelongsToKey ==
    (k_last.op \in Loads \cup {"pdp_get_pubkey"} /\ ~k_last.ret.null) =>
        /\ k_last.ret.g # 0
        /\ GCD(k_last.ret.g, k_last.ret.rsa.n) = 1
        /\ k_last.persisted.how # "pub_altered"

-----------------------------------------------------------------------------
(***************************************************************************)
(* SpecSecrets: one call of PBKDF2, of pdp_create_new_keypair (passphrase  *)
(* typed, key generated, write_pdp_keypair) or of read_pdp_keypair_temp,   *)
(* and the memory the call leaves behind: the local arrays of the          *)
(* functions it ran, as they stand on the stack at their return, and the   *)
(* heap buffers it released, as they were released.                        *)
(***************************************************************************)

\* memset(buf, 0, sizeof buf)
Cleared(buf) == Fill(Len(buf), 0)

\* No call of nist_key_wrap / nist_key_unwrap was made.
NoFrame == WrapFrame(<<>>, <<>>, <<>>, <<>>)

\* The buffers a call leaves: its passphrase buffer, the derived key dk,
\* the arrays T of PBKDF2 and U of PBKDF2_F, the copy key_v of the PRF
\* secret and the frame of the key wrap function. A buffer that the call
\* never had is <<>>.
Memory(password, dk, T, U, key_v, wrap) ==
    [password |-> password, dk |-> dk, T |-> T, U |-> U, key_v |-> key_v,
     wrap |-> wrap]

\* write_pdp_keypair(key, password, NULL) from "memset(key_v, 0, 32)" on:
\* the return value and the memory left. The buffer password is the
\* caller's.
write_pdp_keypair_memory(v, password, salt) ==
    LET key_v == Slice(v, 0, PRF_KEY_SIZE) \o Fill(32 - PRF_KEY_SIZE, 0)
        wrapped(p, w) ==
            [rc |-> IF w.ret.null THEN 0 ELSE 1,
             mem |-> Memory(<<>>, sfree(p.dk.buf, PRP_KEY_SIZE), p.T, p.U,
                            key_v, w.frame)]
        derived(p) ==
            IF p.dk.null
            THEN [rc |-> 0, mem |-> Memory(<<>>, <<>>, p.T, p.U, Fill(32, 0), NoFrame)]
            ELSE wrapped(p, nist_key_wrap(key_v, 32, p.dk.buf, PRP_KEY_SIZE))
    IN  IF ~PEM_write_PKCS8PrivateKey(NoRsa, password).ok
        THEN [rc |-> 0, mem |-> Memory(<<>>, <<>>, <<>>, <<>>, Fill(32, 0), NoFrame)]
        ELSE derived(PBKDF2_frame(password, Len(password), salt, PRF_KEY_SIZE,
                                  PBKDF2_ITERATIONS, PRP_KEY_SIZE))

\* pdp_create_new_keypair() from the two read_password calls on, both of
\* which returned typed: the key generated (NULL on failure) and the memory
\* left. password1 is cleared on both ways out.
pdp_create_new_keypair_memory(typed, key, salt) ==
    LET password1 == typed
        written(w) ==
            [ret |-> IF w.rc = 0 THEN NoKey ELSE key,
             mem |-> [w.mem EXCEPT !.password = Cleared(password1)]]
    IN  IF key.null
        THEN [ret |-> NoKey,
              mem |-> Memory(Cleared(password1), <<>>, <<>>, <<>>, <<>>, NoFrame)]
        ELSE written(write_pdp_keypair_memory(key.v, password1, salt))

\* read_pdp_keypair_temp(pri_key, pub_key, password_in) on the private key
\* file pri_key (its PEM block and what follows it), up to the unwrapped
\* secret: the secret v of the key returned (NULL on failure) and the
\* memory left. password is the local array the passphrase is copied to.
read_pdp_keypair_temp_memory(pri_key, password_in) ==
    LET password == password_in
        pkey == PEM_read_PrivateKey(pri_key.pem, password)
        salt == FRead(pri_key.raw, 0, PRF_KEY_SIZE)
        enc_v == FRead(pri_key.raw, PRF_KEY_SIZE, 40)
        unwrapped(p, u) ==
            [v |-> IF u.ret.null THEN NULL ELSE Buf(Slice(u.ret.buf, 0, PRF_KEY_SIZE)),
             mem |-> Memory(Cleared(password), sfree(p.dk.buf, PRP_KEY_SIZE), p.T, p.U,
                            IF u.ret.null THEN <<>> ELSE sfree(u.ret.buf, PRF_KEY_SIZE),
                            u.frame)]
        derived(p) ==
            IF p.dk.null
            THEN [v |-> NULL, mem |-> Memory(Cleared(password), <<>>, p.T, p.U, <<>>, NoFrame)]
            ELSE unwrapped(p, nist_key_unwrap(enc_v, 40, p.dk.buf, PRP_KEY_SIZE))
    IN  IF pkey.null \/ ~RSA_check_key(pkey.rsa)
        THEN [v |-> NULL, mem |-> Memory(Cleared(password), <<>>, <<>>, <<>>, <<>>, NoFrame)]
        ELSE derived(PBKDF2_frame(password, Len(password), salt, PRF_KEY_SIZE,
                                  PBKDF2_ITERATIONS, PRP_KEY_SIZE))

\* Iteration counts and key lengths handed to PBKDF2 on its own: none, one
\* block, less than a block, more than a block, two blocks.
IterationCounts == 0..MaxIterations
KeyLengths == {0, PRP_KEY_SIZE, SHA_DIGEST_LENGTH, 24, 40}

InitSecrets ==
    /\ ParkedAdder
    /\ ParkedKeyWrap
    /\ ParkedKeyStore
    /\ ParkedAlloc
    /\ ParkedDag
    /\ ParkedRace
    /\ ParkedOutput
    /\ m_pc = "start"
    /\ m_in \in [password : Passwords \cup {<<>>}, salt : Salts,
                 c : IterationCounts, dkey_len : KeyLengths,
                 key : Keys, typed : Passwords, flip : TamperOffsets \cup {-1}]
    /\ m_out = <<>>

\* dk = PBKDF2(password, strlen(password), salt, PRF_KEY_SIZE, c, dkey_len).
\* The derived key goes to the caller; the passphrase buffer is the
\* caller's.
Derive ==
    /\ m_pc = "start"
    /\ \E p \in {PBKDF2_frame(m_in.password, Len(m_in.password), m_in.salt,
                              PRF_KEY_SIZE, m_in.c, m_in.dkey_len)} :
         m_out' = [op |-> "PBKDF2", ret |-> p.dk, blocks |-> p.blocks,
                   mem |-> Memory(<<>>, <<>>, p.T, p.U, <<>>, NoFrame)]
    /\ m_pc' = "returned"
    /\ UNCHANGED <<parkedBySecrets, m_in>>

\* pdp_create_new_keypair(), the passphrase typed twice.
CreateKeypairSecrets ==
    /\ m_pc = "start"
    /\ \E c \in {pdp_create_new_keypair_memory(m_in.password, m_in.key, m_in.salt)} :
         m_out' = [op |-> "pdp_create_new_keypair", ret |-> c.ret, blocks |-> <<>>,
                   mem |-> c.mem]
    /\ m_pc' = "returned"
    /\ UNCHANGED <<parkedBySecrets, m_in>>

\* read_pdp_keypair_temp on the private key file that write_pdp_keypair
\* wrote for key under typed with salt, as written (flip = -1) or with one
\* bit flipped, with the passphrase password.
ReadKeypairSecrets ==
    /\ m_pc = "start"
    /\ \E sec \in {WrapSecretMemo(m_in.key.v, m_in.typed, m_in.salt)} :
         LET raw == m_in.salt \o Slice(sec.enc_v.buf, 0, 40)
             pri_key == [exists |-> TRUE,
                         pem |-> PEM_write_PKCS8PrivateKey(m_in.key.rsa, m_in.typed).pem,
                         raw |-> IF m_in.flip = -1 THEN raw ELSE FlipBit(raw, m_in.flip)]
         IN  \E r \in {read_pdp_keypair_temp_memory(pri_key, m_in.password)} :
               m_out' = [op |-> "read_pdp_keypair_temp", ret |-> r.v, blocks |-> <<>>,
                         mem |-> r.mem]
    /\ m_pc' = "returned"
    /\ UNCHANGED <<parkedBySecrets, m_in>>

NextSecrets ==
    \/ Derive
    \/ CreateKeypairSecrets
    \/ ReadKeypairSecrets

SpecSecrets == InitSecrets /\ [][NextSecrets]_vars

-----------------------------------------------------------------------------
(* Properties of the memory left. *)

\* Every byte of the buffer is zero (so of a buffer the call never had).
Zeroed(buf) == \A k \in 1..Len(buf) : buf[k] = 0

\* C11: when a key-management operation returns, every buffer that held
\* the passphrase or bytes of the derived key (the passphrase buffer, dk,
\* and the block arrays T and U of PBKDF2) is overwritten with zeros, on
\* the success path and on the failure paths.
C11_PassphraseAndKeyBuffersZeroed ==
    m_pc = "returned" =>
        /\ Zeroed(m_out.mem.password)
        /\ Zeroed(m_out.mem.dk)
        /\ Zeroed(m_out.mem.T)
        /\ Zeroed(m_out.mem.U)

\* C12: when write_pdp_keypair (under pdp_create_new_keypair) or the load
\* returns, every temporary buffer that held the PRF secret v is zeroed:
\* the copy key_v, and the register and block arrays of the key wrap
\* function.
C12_SecretCopiesZeroed ==
    (m_pc = "returned" /\ m_out.op # "PBKDF2") =>
        /\ Zeroed(m_out.mem.key_v)
        /\ Zeroed(m_out.mem.wrap.r_array)
        /\ Zeroed(m_out.mem.wrap.aes_input)
        /\ Zeroed(m_out.mem.wrap.aes_output)

\* The PBKDF2 of PKCS #5: T_i = U_1 xor ... xor U_c, U_1 = PRF(P, S || INT(i)),
\* U_k = PRF(P, U_k-1).
RECURSIVE StandardXor(_, _, _, _, _)
StandardXor(T, U, P, k, c) ==
    IF k > c THEN T
    ELSE LET T1 == XorBytes(T, U)
         IN  IF T1 # <<>> THEN StandardXor(T1, HMAC(P, U), P, k + 1, c) ELSE T

StandardBlock(P, S, c, i) ==
    StandardXor(Fill(SHA_DIGEST_LENGTH, 0), HMAC(P, S \o htonl(i)), P, 1, c)

\* C14: PBKDF2 follows the standard construction: block number b (from 1)
\* of the output is the XOR of exactly c chained PRF outputs starting from
\* HMAC(password, salt || b), and depends on (password, salt, c, b) only.
C14_StandardPBKDF2 ==
    (m_pc = "returned" /\ m_out.op = "PBKDF2" /\ ~m_out.ret.null) =>
        \A b \in 1..Len(m_out.blocks) :
            /\ m_out.blocks[b].i = b
            /\ m_out.blocks[b].T = StandardBlock(m_in.password, m_in.salt, m_in.c, b)

-----------------------------------------------------------------------------
(***************************************************************************)
(* SpecAlloc: one call of generate_pdp_key, read_pdp_keypair or            *)
(* read_pdp_keypair_temp, statement by statement, with each call that can  *)
(* fail failing or not. An object is named by the pointer variable that    *)
(* holds it ("rsa", "v" and "g" are key->rsa, key->v and key->g; "pubrsa"  *)
(* is the local rsa of the load functions). A pointer variable keeps its   *)
(* value when the object is released: the code sets none back to NULL.     *)
(***************************************************************************)

Step(op, at, objs) == [op |-> op, at |-> at, objs |-> objs]

\* The statements of generate_pdp_key from the malloc of key to the last
\* RSA_check_key, in the build with USE_SAFE_PRIMES and in the build
\* without. "alloc" yields an object or NULL, "call" succeeds or fails,
\* "own" hands big numbers over to the RSA object or fails, "free" releases
\* objects, "check" is the second RSA_check_key on the key that passed the
\* first.
GenerateSteps(safe_primes) ==
    <<Step("alloc", "malloc", <<"key">>),
      Step("alloc", "BN_new", <<"p">>), Step("alloc", "BN_new", <<"q">>),
      Step("alloc", "BN_new", <<"d">>), Step("alloc", "BN_new", <<"e">>),
      Step("alloc", "BN_new", <<"n">>), Step("alloc", "BN_new", <<"dmp1">>),
      Step("alloc", "BN_new", <<"dmq1">>), Step("alloc", "BN_new", <<"iqmp">>),
      Step("alloc", "BN_new", <<"r1">>), Step("alloc", "BN_new", <<"r2">>),
      Step("alloc", "BN_CTX_new", <<"ctx">>), Step("alloc", "BN_new", <<"phi">>),
      Step("alloc", "malloc", <<"v">>)>>
    \o (IF safe_primes
        THEN <<Step("call", "BN_generate_prime_ex .. BN_mod_inverse", <<>>),
               Step("alloc", "RSA_new", <<"rsa">>),
               Step("own", "RSA_set0_key", <<"n", "e", "d">>),
               Step("own", "RSA_set0_factors", <<"p", "q">>),
               Step("own", "RSA_set0_crt_params", <<"dmp1", "dmq1", "iqmp">>)>>
        ELSE <<Step("alloc", "RSA_generate_key", <<"rsa">>)>>)
    \o <<Step("call", "RSA_check_key", <<>>),
         Step("call", "RAND_bytes", <<>>),
         Step("alloc", "pick_pdp_generator", <<"g">>),
         Step("free", "BN_CTX_free, BN_clear_free", <<"ctx", "r1", "r2", "phi">>),
         Step("check", "RSA_check_key", <<>>)>>

\* The statements of read_pdp_keypair (from_terminal) and of
\* read_pdp_keypair_temp, from the malloc of key to the frees before
\* "return key".
ReadSteps(from_terminal) ==
    <<Step("alloc", "malloc", <<"key">>),
      Step("alloc", "BN_new", <<"g">>), Step("alloc", "malloc", <<"v">>),
      Step("alloc", "BN_new", <<"r1">>), Step("alloc", "BN_new", <<"r2">>),
      Step("alloc", "BN_CTX_new", <<"ctx">>),
      Step("alloc", "malloc", <<"salt">>), Step("alloc", "malloc", <<"enc_v">>)>>
    \o (IF from_terminal THEN <<Step("call", "read_password", <<>>)>> ELSE <<>>)
    \o <<Step("alloc", "PEM_read_PrivateKey", <<"pkey">>),
         Step("alloc", "EVP_PKEY_get1_RSA", <<"rsa">>),
         Step("call", "RSA_check_key", <<>>),
         Step("call", "fread, ferror", <<>>),
         Step("alloc", "PBKDF2", <<"dk">>),
         Step("alloc", "nist_key_unwrap", <<"key_v">>),
         Step("alloc", "PEM_read_RSAPublicKey", <<"pubrsa">>),
         Step("free", "RSA_free", <<"pubrsa">>),
         Step("alloc", "malloc", <<"gen">>),
         Step("call", "BN_bin2bn", <<>>),
         Step("free", "BN_clear_free .. sfree",
              <<"r1", "r2", "ctx", "pkey", "dk", "salt", "enc_v", "key_v", "gen">>)>>

Steps(in) ==
    IF in.fn = "generate_pdp_key" THEN GenerateSteps(in.safe_primes)
    ELSE ReadSteps(in.fn = "read_pdp_keypair")

\* The pointer variables that the code after "cleanup:" releases when they
\* are not NULL, in its order; destroy_pdp_key(key) is key->rsa, key->v,
\* key->g and key.
CleanupOrder(in) ==
    IF in.fn = "generate_pdp_key"
    THEN <<"rsa", "v", "g", "key", "r1", "r2", "phi", "p", "q", "d", "e", "n",
           "dmp1", "dmq1", "iqmp", "ctx">>
    ELSE <<"rsa", "v", "g", "key", "r1", "r2", "ctx", "pkey", "dk", "salt",
           "enc_v", "key_v", "gen">>

Objects ==
    {"key", "p", "q", "d", "e", "n", "dmp1", "dmq1", "iqmp", "r1", "r2", "ctx",
     "phi", "v", "rsa", "g", "salt", "enc_v", "pkey", "dk", "key_v", "pubrsa", "gen"}

\* free, sfree, BN_clear_free, BN_CTX_free, EVP_PKEY_free, RSA_free of the
\* object obj: RSA_free releases the big numbers the RSA object owns with
\* it.
Released(freed, owned, obj) ==
    [o \in Objects |->
        IF o = obj \/ (obj = "rsa" /\ o \in owned) THEN freed[o] + 1 ELSE freed[o]]

\* "if(x) free(x);" for the pointer variables of order from k on.
RECURSIVE ReleaseAll(_, _, _, _, _)
ReleaseAll(freed, owned, ptr, order, k) ==
    IF k > Len(order) THEN freed
    ELSE ReleaseAll(IF order[k] \in ptr THEN Released(freed, owned, order[k]) ELSE freed,
                    owned, ptr, order, k + 1)

InitAlloc ==
    /\ ParkedAdder
    /\ ParkedKeyWrap
    /\ ParkedKeyStore
    /\ ParkedSecrets
    /\ ParkedDag
    /\ ParkedRace
    /\ ParkedOutput
    /\ r_in \in [fn : {"generate_pdp_key", "read_pdp_keypair", "read_pdp_keypair_temp"},
                 safe_primes : BOOLEAN]
    /\ r_pc = "run"
    /\ r_i = 1
    /\ r_ptr = {}
    /\ r_owned = {}
    /\ r_freed = [o \in Objects |-> 0]
    /\ r_ret = ""

\* The next statement succeeds.
AllocStep ==
    /\ r_pc = "run"
    /\ r_i <= Len(Steps(r_in))
    /\ LET st == Steps(r_in)[r_i]
           objs == {st.objs[k] : k \in 1..Len(st.objs)}
       IN  /\ r_ptr' = IF st.op = "alloc" THEN r_ptr \cup objs ELSE r_ptr
           /\ r_owned' = IF st.op = "own" THEN r_owned \cup objs ELSE r_owned
           /\ r_freed' = IF st.op = "free"
                         THEN ReleaseAll(r_freed, r_owned, r_ptr, st.objs, 1)
                         ELSE r_freed
    /\ r_i' = r_i + 1
    /\ UNCHANGED <<parkedByAlloc, r_in, r_pc, r_ret>>

\* The next statement fails: "return NULL" for the malloc of key, "goto
\* cleanup" for all others.
AllocFail ==
    /\ r_pc = "run"
    /\ r_i <= Len(Steps(r_in))
    /\ Steps(r_in)[r_i].op \in {"alloc", "call", "own"}
    /\ IF r_i = 1
       THEN r_pc' = "returned" /\ r_ret' = "NULL"
       ELSE r_pc' = "cleanup" /\ r_ret' = r_ret
    /\ UNCHANGED <<parkedByAlloc, r_in, r_i, r_ptr, r_owned, r_freed>>

\* cleanup: ... return NULL;
AllocCleanup ==
    /\ r_pc = "cleanup"
    /\ r_freed' = ReleaseAll(r_freed, r_owned, r_ptr, CleanupOrder(r_in), 1)
    /\ r_pc' = "returned"
    /\ r_ret' = "NULL"
    /\ UNCHANGED <<parkedByAlloc, r_in, r_i, r_ptr, r_owned>>

\* return key;
AllocReturn ==
    /\ r_pc = "run"
    /\ r_i > Len(Steps(r_in))
    /\ r_pc' = "returned"
    /\ r_ret' = "key"
    /\ UNCHANGED <<parkedByAlloc, r_in, r_i, r_ptr, r_owned, r_freed>>

NextAlloc ==
    \/ AllocStep
    \/ AllocFail
    \/ AllocCleanup
    \/ AllocReturn

SpecAlloc == InitAlloc /\ [][NextAlloc]_vars

-----------------------------------------------------------------------------
(* Properties of the allocations. *)

\* C15: when generate_pdp_key, read_pdp_keypair or read_pdp_keypair_temp
\* returns NULL after a failure, every object the call allocated (the
\* partial PDP_key and its members, the big numbers, the RSA objects and
\* the buffers) has been released exactly once: none is leaked and none
\* is released twice, the big numbers handed to the RSA object included.
C15_FailureReleasesEverythingOnce ==
    (r_pc = "returned" /\ r_ret = "NULL") =>
        /\ \A o \in r_ptr : r_freed[o] = 1
        /\ \A o \in Objects \ r_ptr : r_freed[o] = 0

-----------------------------------------------------------------------------
(***************************************************************************)
(* SpecDag: a single.DAGService from New on, under any sequence of Add and *)
(* Finalize. adder.BlockAllocate, adder.NewBlockAdder, BlockAdder.Add and  *)
(* adder.Pin are calls into the cluster: BlockAllocate answers with a      *)
(* non-empty list of peers or an error, a BlockAdder sends each block to   *)
(* all of its destinations or fails, Pin succeeds or fails. The peer ID "" *)
(* as destination of an RPC stands for the peer that makes the call.       *)
(***************************************************************************)

ClusterPeers == {"QmA", "QmB", "QmC"}

\* The peer this DAGService runs on.
LocalPeer == "QmA"

DagRoots == {"root1", "root2"}

\* A []peer.ID that is nil, and one that holds the given peers.
NilPeers == [nil |-> TRUE, peers |-> {}]
PeerList(peers) == [nil |-> FALSE, peers |-> peers]

\* The peers that RPCs to the given destinations reach.
Reached(dests) == {IF p = "" THEN LocalPeer ELSE p : p \in dests}

\* if dgs.local { NewBlockAdder(.., []peer.ID{""}) } else { NewBlockAdder(.., dests) }
NewBlockAdderDests(local, dests) ==
    IF local THEN PeerList({""}) ELSE PeerList(dests.peers)

\* Mutation of NeedsAllocation: Add allocates whether it holds destinations
\* or not.
NeedsAllocation_always(dests) == TRUE

\* Add: "if dgs.dests == nil {"
NeedsAllocation(dests) == dests.nil

\* What BlockAllocate can answer: an error, or a list of peers.
Answers ==
    {[err |-> TRUE, peers |-> {}]}
        \cup {[err |-> FALSE, peers |-> ps] : ps \in (SUBSET ClusterPeers) \ {{}}}

NoSession == [adds |-> 0, calls |-> 0, allocated |-> 0]

\* The fields of the service that Add works on.
Service(dests, ba, sent) == [dests |-> dests, ba |-> ba, sent |-> sent]

\* dgs.Add(ctx, node) on the service dgs in the session ses, answer being
\* what BlockAllocate says if it is called and ba_err whether dgs.ba.Add
\* fails: the service and the session after the call, the error, and
\* whether BlockAllocate was called and to what end.
Add(dgs, ses, local, answer, ba_err) ==
    LET allocate == IF ~NeedsAllocation(dgs.dests) THEN "not called"
                    ELSE IF answer.err THEN "failed" ELSE "ok"
        err == allocate = "failed" \/ ba_err
        ba == IF allocate = "ok"
              THEN NewBlockAdderDests(local, PeerList(answer.peers)) ELSE dgs.ba
    IN  [dgs |-> Service(IF allocate = "ok" THEN PeerList(answer.peers) ELSE dgs.dests,
                         ba,
                         IF err THEN dgs.sent ELSE dgs.sent \cup Reached(ba.peers)),
         ses |-> [adds |-> ses.adds + 1,
                  calls |-> ses.calls + (IF allocate = "not called" THEN 0 ELSE 1),
                  allocated |-> ses.allocated + (IF allocate = "ok" THEN 1 ELSE 0)],
         err |-> err,
         call |-> [nth |-> ses.adds + 1, allocate |-> allocate, err |-> err,
                   pre |-> dgs]]

\* The record of one Add: its place in the session, what became of
\* BlockAllocate, its error, and the service before and after.
AddRecord(r) ==
    [nth |-> r.call.nth, allocate |-> r.call.allocate, err |-> r.call.err,
     pre |-> r.call.pre, post |-> r.dgs]

\* dgs.AddMany(ctx, nodes): "for _, node := range nodes { err := dgs.Add(ctx,
\* node); if err != nil { return err } }", outcomes holding for each node
\* the answer of BlockAllocate and whether dgs.ba.Add fails.
RECURSIVE AddMany(_, _, _, _, _, _)
AddMany(dgs, ses, local, outcomes, k, calls) ==
    IF k > Len(outcomes)
    THEN [dgs |-> dgs, ses |-> ses, err |-> FALSE, calls |-> calls]
    ELSE LET next(r) ==
                 IF r.err
                 THEN [dgs |-> r.dgs, ses |-> r.ses, err |-> TRUE,
                       calls |-> Append(calls, AddRecord(r))]
                 ELSE AddMany(r.dgs, r.ses, local, outcomes, k + 1,
                              Append(calls, AddRecord(r)))
         IN  next(Add(dgs, ses, local, outcomes[k].answer, outcomes[k].ba_err))

\* single.New(rpc, opts, local)
InitDag ==
    /\ ParkedAdder
    /\ ParkedKeyWrap
    /\ ParkedKeyStore
    /\ ParkedSecrets
    /\ ParkedAlloc
    /\ ParkedRace
    /\ ParkedOutput
    /\ d_local \in BOOLEAN
    /\ d_dests = NilPeers
    /\ d_ba = NilPeers
    /\ d_sent = {}
    /\ d_session = NoSession
    /\ d_last = [op |-> "New", err |-> FALSE, calls |-> <<>>]

\* The service as one of the calls leaves it.
Leaves(op, r, calls) ==
    /\ d_dests' = r.dgs.dests
    /\ d_ba' = r.dgs.ba
    /\ d_sent' = r.dgs.sent
    /\ d_session' = r.ses
    /\ d_last' = [op |-> op, err |-> r.err, calls |-> calls]

\* dgs.Add(ctx, node) with BlockAllocate failing.
DagAddAllocateFails ==
    /\ d_session.adds < MaxAdds
    /\ NeedsAllocation(d_dests)
    /\ \E r \in {Add(Service(d_dests, d_ba, d_sent), d_session, d_local,
                     [err |-> TRUE, peers |-> {}], FALSE)} :
           Leaves("Add", r, <<AddRecord(r)>>)
    /\ UNCHANGED <<parkedByDag, d_local>>

\* dgs.Add(ctx, node), BlockAllocate succeeding where it is called; the
\* block goes out to the BlockAdder's destinations or dgs.ba.Add fails.
DagAdd ==
    /\ d_session.adds < MaxAdds
    /\ \E allocated \in (SUBSET ClusterPeers) \ {{}}, ba_err \in BOOLEAN :
        \E r \in {Add(Service(d_dests, d_ba, d_sent), d_session, d_local,
                      [err |-> FALSE, peers |-> allocated], ba_err)} :
            Leaves("Add", r, <<AddRecord(r)>>)
    /\ UNCHANGED <<parkedByDag, d_local>>

\* dgs.AddMany(ctx, nodes)
DagAddMany ==
    /\ \E n \in 0..MaxNodes :
        /\ d_session.adds + n <= MaxAdds
        /\ \E outcomes \in [1..n -> [answer : Answers, ba_err : BOOLEAN]] :
            \E r \in {AddMany(Service(d_dests, d_ba, d_sent), d_session, d_local,
                              outcomes, 1, <<>>)} :
                Leaves("AddMany", r, r.calls)
    /\ UNCHANGED <<parkedByDag, d_local>>

\* dgs.Finalize(ctx, root)
DagFinalize ==
    \E root \in DagRoots, pin_err \in BOOLEAN :
        /\ d_last' = [op |-> "Finalize", err |-> pin_err, calls |-> <<>>,
                      ret |-> root,
                      rootPin |-> [Cid |-> root, Mode |-> "recursive",
                                   Allocations |-> d_dests],
                      sent |-> d_sent]
        /\ d_dests' = NilPeers
        /\ d_sent' = {}
        /\ d_session' = NoSession
        /\ UNCHANGED <<parkedByDag, d_local, d_ba>>

NextDag ==
    \/ DagAddAllocateFails
    \/ DagAdd
    \/ DagAddMany
    \/ DagFinalize

SpecDag == InitDag /\ [][NextDag]_vars

-----------------------------------------------------------------------------
(* Properties of the single DAGService. *)

\* C16: for every session (the Adds between New or the previous Finalize
\* and the next Finalize), the peers that the session's blocks were sent to
\* are the Allocations of the pin that Finalize issues for the session,
\* whether local is set or not.
C16_BlocksGoToAllocations ==
    (d_last.op = "Finalize" /\ d_last.sent # {}) =>
        d_last.sent = d_last.rootPin.Allocations.peers

\* What the claim says of every Add but the call of BlockAllocate: an Add
\* that does not allocate keeps the destinations and the BlockAdder, an Add
\* whose BlockAllocate fails returns the error and leaves the destinations,
\* the BlockAdder and the blocks sent as they were, and Finalize leaves no
\* destinations, so that the next Add allocates.
ReusesAndResets ==
    /\ \A k \in 1..Len(d_last.calls) :
          /\ d_last.calls[k].allocate = "not called" =>
                /\ d_last.calls[k].post.dests = d_last.calls[k].pre.dests
                /\ d_last.calls[k].post.ba = d_last.calls[k].pre.ba
          /\ d_last.calls[k].allocate = "failed" =>
                /\ d_last.calls[k].err
                /\ d_last.err
                /\ d_last.calls[k].post = d_last.calls[k].pre
          /\ d_last.calls[k].allocate = "ok" => ~d_last.calls[k].post.dests.nil
    /\ d_last.op = "Finalize" => (d_dests.nil /\ d_session = NoSession)

\* C21 as stated: BlockAllocate is called exactly once per session, by the
\* first Add after New or after a Finalize and by no later Add; later Adds
\* reuse the destinations and the BlockAdder; Finalize resets the
\* destinations; an Add whose BlockAllocate fails returns the error and
\* changes nothing.
C21_AllocatedOncePerSession ==
    /\ \A k \in 1..Len(d_last.calls) :
          (d_last.calls[k].allocate # "not called") <=> (d_last.calls[k].nth = 1)
    /\ d_session.calls <= 1
    /\ ReusesAndResets

\* C21 as amended: BlockAllocate is called by every Add that finds no
\* destinations set, and by no other Add: the first Add of a session and
\* each Add that follows a failed BlockAllocate; it gives destinations at
\* most once per session, and from then on the Adds up to the next
\* Finalize reuse them and the BlockAdder made for them; Finalize resets the
\* destinations; an Add whose BlockAllocate fails returns the error and
\* changes nothing.
C21_AllocatedWhileNoDestinations ==
    /\ \A k \in 1..Len(d_last.calls) :
          (d_last.calls[k].allocate # "not called") <=> d_last.calls[k].pre.dests.nil
    /\ d_session.allocated <= 1
    /\ (d_session.allocated = 1) <=> ~d_dests.nil
    /\ ReusesAndResets

\* C21 witness: in one session BlockAllocate failed for one Add, gave
\* destinations to a later one, and the last Add reused them.
C21_Witness ==
    /\ d_last.op \in {"Add", "AddMany"}
    /\ d_last.calls # <<>>
    /\ d_last.calls[Len(d_last.calls)].allocate = "not called"
    /\ ~d_last.err
    /\ d_session = [adds |-> 3, calls |-> 2, allocated |-> 1]

-----------------------------------------------------------------------------
(***************************************************************************)
(* SpecRace: FromFiles or FromFile called on one Adder from several        *)
(* goroutines at once, each with a context of its own that nobody cancels. *)
(* The two functions begin and end alike: setContext, the test of          *)
(* a.ctx.Err(), the two defer statements, the work, and on return          *)
(* close(a.output) and a.cancel(). The Adder holds no lock, so the steps   *)
(* of the goroutines interleave; the test "a.ctx == nil" and the           *)
(* assignments of setContext are separate steps. A context is named by the *)
(* goroutine whose setContext derived it.                                  *)
(***************************************************************************)

Goroutines == 1..MaxGoroutines

\* adder.New, and the goroutines about to call.
InitRace ==
    /\ ParkedAdder
    /\ ParkedKeyWrap
    /\ ParkedKeyStore
    /\ ParkedSecrets
    /\ ParkedAlloc
    /\ ParkedDag
    /\ ParkedOutput
    /\ g_ctx = 0
    /\ g_cancel = 0
    /\ g_done = {}
    /\ g_pc = [g \in Goroutines |-> "setContext"]
    /\ g_defer = [g \in Goroutines |-> 0]
    /\ g_closes = 0
    /\ g_installs = 0
    /\ g_proceeded = {}

\* setContext: "if a.ctx == nil {"
RaceTestNil ==
    \E g \in Goroutines :
        /\ g_pc[g] = "setContext"
        /\ g_pc' = [g_pc EXCEPT ![g] = IF g_ctx = 0 THEN "assign" ELSE "check"]
        /\ UNCHANGED <<parkedByRace, g_ctx, g_cancel, g_done, g_defer, g_closes,
                       g_installs, g_proceeded>>

\* setContext: "ctxc, cancel := context.WithCancel(ctx); a.ctx = ctxc;
\* a.cancel = cancel"
RaceAssign ==
    \E g \in Goroutines :
        /\ g_pc[g] = "assign"
        /\ g_ctx' = g
        /\ g_cancel' = g
        /\ g_installs' = g_installs + 1
        /\ g_pc' = [g_pc EXCEPT ![g] = "check"]
        /\ UNCHANGED <<parkedByRace, g_done, g_defer, g_closes, g_proceeded>>

\* "if a.ctx.Err() != nil { return cid.Undef, a.ctx.Err() }", and for a call
\* that goes on "defer a.cancel()", which takes the value of a.cancel, and
\* "defer close(a.output)".
RaceCheck ==
    \E g \in Goroutines :
        /\ g_pc[g] = "check"
        /\ IF g_ctx \in g_done
           THEN /\ g_pc' = [g_pc EXCEPT ![g] = "returned"]
                /\ UNCHANGED g_defer
           ELSE /\ g_pc' = [g_pc EXCEPT ![g] = "work"]
                /\ g_defer' = [g_defer EXCEPT ![g] = g_cancel]
        /\ UNCHANGED <<parkedByRace, g_ctx, g_cancel, g_done, g_closes, g_installs,
                       g_proceeded>>

\* The call sets up its ipfsAdder, tags and adds.
RaceWork ==
    \E g \in Goroutines :
        /\ g_pc[g] = "work"
        /\ g_proceeded' = g_proceeded \cup {g}
        /\ g_pc' = [g_pc EXCEPT ![g] = "return"]
        /\ UNCHANGED <<parkedByRace, g_ctx, g_cancel, g_done, g_defer, g_closes,
                       g_installs>>

\* The call returns: close(a.output), which panics on a closed channel, then
\* the deferred cancel, which runs whether close panicked or not.
RaceReturn ==
    \E g \in Goroutines :
        /\ g_pc[g] = "return"
        /\ g_closes' = g_closes + 1
        /\ g_done' = g_done \cup {g_defer[g]}
        /\ g_pc' = [g_pc EXCEPT ![g] = "returned"]
        /\ UNCHANGED <<parkedByRace, g_ctx, g_cancel, g_defer, g_installs, g_proceeded>>

NextRace ==
    \/ RaceTestNil
    \/ RaceAssign
    \/ RaceCheck
    \/ RaceWork
    \/ RaceReturn

SpecRace == InitRace /\ [][NextRace]_vars

-----------------------------------------------------------------------------
(* Properties of concurrent calls. *)

\* C20: under any interleaving of concurrent FromFiles/FromFile calls on
\* one Adder at most one call proceeds to tag and add content, the output
\* channel is closed at most once, and setContext installs exactly one
\* context.
C20_OneCallProceeds ==
    /\ Cardinality(g_proceeded) <= 1
    /\ g_closes <= 1
    /\ g_installs <= 1

-----------------------------------------------------------------------------
(***************************************************************************)
(* SpecOutput: what is written to the log, to stdout and to stderr by      *)
(* FromFiles and FromFile between the set-up and the first pdp_tag_file    *)
(* (adder.go), and by pdp_get_keypair_temp with read_pdp_keypair_temp      *)
(* (pdp-keys.c), the key load that takes the passphrase as an argument.    *)
(* Text is a sequence of bytes. The home directory is "/h".                *)
(***************************************************************************)

\* The bytes of the string constants of the code; the paths under the home
\* directory are given with it, the messages with their newline.
Literal(s) ==
    CASE s = "pdpKeyPath:" -> <<112, 100, 112, 75, 101, 121, 80, 97, 116, 104, 58>>
      [] s = "pdpTagPath:" -> <<112, 100, 112, 84, 97, 103, 80, 97, 116, 104, 58>>
      [] s = "pdpPassword:" -> <<112, 100, 112, 80, 97, 115, 115, 119, 111, 114, 100, 58>>
      [] s = "pdp private key:" -> <<112, 100, 112, 32, 112, 114, 105, 118, 97, 116, 101, 32, 107, 101, 121, 58>>
      [] s = "pdp public key:" -> <<112, 100, 112, 32, 112, 117, 98, 108, 105, 99, 32, 107, 101, 121, 58>>
      [] s = "Password in read pdp keypair:" -> <<80, 97, 115, 115, 119, 111, 114, 100, 32, 105, 110, 32, 114, 101, 97, 100, 32, 112, 100, 112, 32, 107, 101, 121, 112, 97, 105, 114, 58>>
      [] s = "ERROR: Failed to decrypt key." -> <<69, 82, 82, 79, 82, 58, 32, 70, 97, 105, 108, 101, 100, 32, 116, 111, 32, 100, 101, 99, 114, 121, 112, 116, 32, 107, 101, 121, 46, 10>>
      [] s = "ERROR: PDP keys do not exist." -> <<69, 82, 82, 79, 82, 58, 32, 80, 68, 80, 32, 107, 101, 121, 115, 32, 100, 111, 32, 110, 111, 116, 32, 101, 120, 105, 115, 116, 46, 10>>
      [] s = "ERROR: PDP public key is missing." -> <<69, 82, 82, 79, 82, 58, 32, 80, 68, 80, 32, 112, 117, 98, 108, 105, 99, 32, 107, 101, 121, 32, 105, 115, 32, 109, 105, 115, 115, 105, 110, 103, 46, 10>>
      [] s = "ERROR: PDP private key is missing." -> <<69, 82, 82, 79, 82, 58, 32, 80, 68, 80, 32, 112, 114, 105, 118, 97, 116, 101, 32, 107, 101, 121, 32, 105, 115, 32, 109, 105, 115, 115, 105, 110, 103, 46, 10>>
      [] s = "ERROR: Unable to access your PDP keys." -> <<69, 82, 82, 79, 82, 58, 32, 85, 110, 97, 98, 108, 101, 32, 116, 111, 32, 97, 99, 99, 101, 115, 115, 32, 121, 111, 117, 114, 32, 80, 68, 80, 32, 107, 101, 121, 115, 46, 10>>
      [] s = "/.ipfs-cluster/key" -> <<47, 104, 47, 46, 105, 112, 102, 115, 45, 99, 108, 117, 115, 116, 101, 114, 47, 107, 101, 121>>
      [] s = "/.ipfs-cluster/tag" -> <<47, 104, 47, 46, 105, 112, 102, 115, 45, 99, 108, 117, 115, 116, 101, 114, 47, 116, 97, 103>>
      [] s = "/pdp.pri" -> <<47, 112, 100, 112, 46, 112, 114, 105>>
      [] s = "/pdp.pub" -> <<47, 112, 100, 112, 46, 112, 117, 98>>
      [] s = "z" -> <<122>>

\* A format that ends in %s, or in %s\n, applied to one string.
Sprintf(literal, arg, newline) ==
    literal \o arg \o (IF newline THEN <<10>> ELSE <<>>)

\* Whether text holds word.
Contains(text, word) ==
    \E off \in 0..(Len(text) - Len(word)) : SubSeq(text, off + 1, off + Len(word)) = word

\* The levels of the logger, and whether Infof writes at a level.
LogLevels == {"debug", "info", "error"}
InfoEnabled(level) == level \in {"debug", "info"}

\* logger.Infof(format, arg)
Infof(out, level, literal, arg) ==
    IF InfoEnabled(level)
    THEN Append(out, [stream |-> "log", text |-> Sprintf(literal, arg, FALSE)])
    ELSE out

\* fprintf(stream, format, arg) and fprintf(stream, message)
fprintf(out, stream, literal, arg, newline) ==
    Append(out, [stream |-> stream, text |-> Sprintf(literal, arg, newline)])

\* The passphrase file: no file, or up to MaxLines lines, each a passphrase.
PassphraseFiles ==
    {<<>>} \cup UNION {[1..n -> Passwords] : n \in 1..MaxLines}

\* "for scanner.Scan() { password = scanner.Text() }": the last line, or ""
\* when there is none.
LastLine(lines) == IF lines = <<>> THEN <<>> ELSE lines[Len(lines)]

\* The passphrase a call is given: the last line of the passphrase file for
\* the add pipeline, the argument password for pdp_get_keypair_temp.
Passphrase(in) == IF in.op = "pdp_get_keypair_temp" THEN in.password ELSE LastLine(in.file)

\* A call of FromFiles or FromFile with its passphrase file and log level,
\* or of pdp_get_keypair_temp(keypath, password) with the key files that
\* exist, the passphrase the private key was written under, and the build
\* (DEBUG_MODE or not).
InitOutput ==
    /\ ParkedAdder
    /\ ParkedKeyWrap
    /\ ParkedKeyStore
    /\ ParkedSecrets
    /\ ParkedAlloc
    /\ ParkedDag
    /\ ParkedRace
    /\ o_in \in [op : {"FromFiles", "FromFile"}, file : PassphraseFiles,
                 level : LogLevels, password : {<<>>}, pri_key : {FALSE},
                 pub_key : {FALSE}, written_with : {<<>>}, debug_mode : {FALSE}]
            \cup [op : {"pdp_get_keypair_temp"}, file : {<<>>}, level : {"error"},
                  password : Passwords, pri_key : BOOLEAN, pub_key : BOOLEAN,
                  written_with : Passwords, debug_mode : BOOLEAN]
    /\ o_pc = "paths"
    /\ o_password = <<>>
    /\ o_out = <<>>

\* logger.Infof("pdpKeyPath:%s", pdpkeyPath); logger.Infof("pdpTagPath:%s",
\* pdptagPath)
OutLogPaths ==
    /\ o_pc = "paths"
    /\ o_in.op \in {"FromFiles", "FromFile"}
    /\ o_out' = Infof(Infof(o_out, o_in.level, Literal("pdpKeyPath:"),
                            Literal("/.ipfs-cluster/key")),
                      o_in.level, Literal("pdpTagPath:"), Literal("/.ipfs-cluster/tag"))
    /\ o_pc' = "scan"
    /\ UNCHANGED <<parkedByOutput, o_in, o_password>>

\* passwordFile, _ := os.Open(pdpPath) and the scanner loop.
OutScan ==
    /\ o_pc = "scan"
    /\ o_password' = LastLine(o_in.file)
    /\ o_pc' = "log"
    /\ UNCHANGED <<parkedByOutput, o_in, o_out>>

\* logger.Infof("pdpPassword:%s", password)
OutLogPassword ==
    /\ o_pc = "log"
    /\ o_out' = Infof(o_out, o_in.level, Literal("pdpPassword:"), o_password)
    /\ o_pc' = "done"
    /\ UNCHANGED <<parkedByOutput, o_in, o_password>>

\* pdp_get_keypair_temp: the two fopen calls and the three fprintf calls
\* that follow them; pdpkeypath is all zero bytes, the empty string.
OutKeyPaths ==
    /\ o_pc = "paths"
    /\ o_in.op = "pdp_get_keypair_temp"
    /\ o_out' = fprintf(fprintf(fprintf(o_out, "stdout", Literal("pdp private key:"),
                                        Literal("/.ipfs-cluster/key") \o Literal("/pdp.pri"), TRUE),
                                "stdout", Literal("pdp public key:"),
                                Literal("/.ipfs-cluster/key") \o Literal("/pdp.pub"), TRUE),
                        "stdout", <<>>, <<>>, TRUE)
    /\ o_pc' = "open"
    /\ UNCHANGED <<parkedByOutput, o_in, o_password>>

\* pdp_get_keypair_temp: a key file is missing; the message for the case,
\* and at cleanup "ERROR: Unable to access your PDP keys."
OutKeysMissing ==
    /\ o_pc = "open"
    /\ ~(o_in.pri_key /\ o_in.pub_key)
    /\ o_out' = fprintf(fprintf(o_out, "stderr",
                                Literal(IF ~o_in.pri_key /\ ~o_in.pub_key
                                        THEN "ERROR: PDP keys do not exist."
                                        ELSE IF o_in.pri_key
                                             THEN "ERROR: PDP public key is missing."
                                             ELSE "ERROR: PDP private key is missing."),
                                <<>>, FALSE),
                        "stderr", Literal("ERROR: Unable to access your PDP keys."),
                        <<>>, FALSE)
    /\ o_pc' = "done"
    /\ UNCHANGED <<parkedByOutput, o_in, o_password>>

\* read_pdp_keypair_temp up to PEM_read_PrivateKey: with DEBUG_MODE
\* strcpy(password, "z"), without it strcpy(password, password_in) and
\* fprintf(stdout, "Password in read pdp keypair:%s\n", password).
OutCopyPassword ==
    /\ o_pc = "open"
    /\ o_in.pri_key /\ o_in.pub_key
    /\ o_password' = IF o_in.debug_mode THEN Literal("z") ELSE o_in.password
    /\ o_out' = IF o_in.debug_mode THEN o_out
                ELSE fprintf(o_out, "stdout", Literal("Password in read pdp keypair:"),
                             o_in.password, TRUE)
    /\ o_pc' = "decrypt"
    /\ UNCHANGED <<parkedByOutput, o_in>>

\* pkey = PEM_read_PrivateKey(pri_key, NULL, NULL, password): on failure
\* "ERROR: Failed to decrypt key." and, back in pdp_get_keypair_temp,
\* "ERROR: Unable to access your PDP keys."; nothing more is printed on
\* success.
OutDecrypt ==
    /\ o_pc = "decrypt"
    /\ o_out' = IF o_password = o_in.written_with THEN o_out
                ELSE fprintf(fprintf(o_out, "stderr",
                                     Literal("ERROR: Failed to decrypt key."), <<>>, FALSE),
                             "stderr", Literal("ERROR: Unable to access your PDP keys."),
                             <<>>, FALSE)
    /\ o_pc' = "done"
    /\ UNCHANGED <<parkedByOutput, o_in, o_password>>

NextOutput ==
    \/ OutLogPaths
    \/ OutScan
    \/ OutLogPassword
    \/ OutKeyPaths
    \/ OutKeysMissing
    \/ OutCopyPassword
    \/ OutDecrypt

SpecOutput == InitOutput /\ [][NextOutput]_vars

-----------------------------------------------------------------------------
(* Properties of the output. *)

\* C22: no line written to the log, to standard output or to standard
\* error by FromFiles, FromFile or the key load holds the cleartext
\* passphrase the call was given.
C22_PassphraseNotWritten ==
    Passphrase(o_in) # <<>> =>
        \A k \in 1..Len(o_out) : ~Contains(o_out[k].text, Passphrase(o_in))

====
